---- MODULE Spec2Model ----
(***************************************************************************)
(* Stream orchestrator, boundary detector and engines of the local VAD     *)
(* adapter (internal/server/server.go, internal/engine).                   *)
(*                                                                         *)
(* One DetectSpeech stream is modelled: every iteration of its receive     *)
(* loop is one step.  Probabilities, thresholds and confidences are        *)
(* integers in hundredths (50 stands for 0.5); times are milliseconds.     *)
(***************************************************************************)
EXTENDS Integers, Sequences, FiniteSets, TLC

VARIABLES
    cfg,              \* Server.cfg, the process defaults
    newEngine,        \* Server.newEngine, the per-stream factory: the kind of engine it builds
    pc,               \* "recv": in the receive loop, "done": DetectSpeech returned
    status,           \* value DetectSpeech returned: [code, msg], NoStatus while running
    streamCfg,        \* per-stream config copy
    eng,              \* the stream's engine, Nil until initEngine
    engineReady,
    formatKnown,
    bd,               \* *boundaryDetector, Nil until initEngine
    cachedFormat,     \* *AudioFormat cached before the first PCM, Nil if none
    sampleRate,
    frameDurationMs,
    streamStart,      \* anchor; ZeroTime until the first PCM chunk
    frameCount,
    sent,             \* events delivered by stream.Send, in order
    factoryCalls,     \* history: calls of s.newEngine on this stream
    closeCalls,       \* history: calls of eng.Close by the deferred function
    chunkAfterClose,  \* history: ProcessChunk was called on a closed engine
    resultsTotal,     \* history: Results returned by the engine so far
    lastCall,         \* history: the most recent bd.process call, Nil before the first
    sentFrom,         \* history: for each sent event, the index of the Result it came from
    factoryMsg,       \* history: the message on which this iteration called s.newEngine
    lastRecv,         \* history: what the last stream.Recv returned
    lastMsg,          \* history: the message the last stream.Recv returned, Nil if none
    callFirst,        \* history: index of the first Result of the latest ProcessChunk call
    chunkCall,        \* history: the latest eng.ProcessChunk call of the stream, or Nil
    stateTensor,      \* SileroEngine.stateTensor, the carried hidden state; 0 when cleared
    audio,            \* engine bench: the audio the engine is fed, see Audios
    fed,              \* engine bench: samples appended since construction or Reset
    allResults,       \* engine bench: Results returned since construction or Reset
    engCall,          \* engine bench: the latest call on the engine, Nil before the first
    ref,              \* engine bench: a second engine, new at construction and at each Reset
    refTensor,        \* engine bench: the second engine's state tensor
    refResults,       \* engine bench: Results the second engine has returned
    benchLog,         \* engine bench: [calls, resets, failed, tuned, closes, destroyed]
    ort,              \* ortInitOnce, ortInitErr and the goroutines calling NewSileroEngine
    iso,              \* concurrent streams of one Server: s.cfg, their locals, their engines
    mainPc,           \* main: the step main() is at
    mainEnv,          \* main: cfg.Engine, the build, the probe's outcome, NUPI_DEV_MODE
    mainLocals,       \* main: resolvedEngine, isAutoMode, newEngine
    lazyService,      \* lazyVADServer.server: Nil, or the real service installed
    healthServer,     \* the health server's status per service name
    exitCode,         \* main: the code given to os.Exit, NoExit while running
    streams,          \* per client, how lazyVADServer.DetectSpeech answered
    shutdown,         \* STEP 6: ctx, the shutdown goroutines, the grace timer, grpcServer
    loader            \* STEP 1: the environment, what Loader.Load returned, a stream's config

vars == << cfg, newEngine, pc, status, streamCfg, eng, engineReady, formatKnown, bd,
           cachedFormat, sampleRate, frameDurationMs, streamStart, frameCount,
           sent, factoryCalls, closeCalls, chunkAfterClose, resultsTotal,
           lastCall, sentFrom, factoryMsg, lastRecv, lastMsg, callFirst, chunkCall,
           stateTensor, audio, fed, allResults, engCall, ref, refTensor,
           refResults, benchLog, ort, iso, mainPc, mainEnv, mainLocals, lazyService,
           healthServer, exitCode, streams, shutdown, loader >>

\* The variables only main and the lazy wrapper (SpecMain) move.
mainVars == << mainPc, mainEnv, mainLocals, lazyService, healthServer, exitCode,
               streams, shutdown, loader >>

\* The variables the stream, detector and main specifications leave alone.
benchVars == << stateTensor, audio, fed, allResults, engCall, ref, refTensor,
                refResults, benchLog, ort, iso >>

(***************************************************************************)
(* Program constants.                                                      *)
(***************************************************************************)
MaxPCMChunkBytes == 1048576
ExpectedSampleRate == 16000
StubToggleInterval == 50
StubConfidence == 42
stubFrameDurationMs == 20
stubSamplesPerFrame == (ExpectedSampleRate * stubFrameDurationMs) \div 1000
sileroWindowSize == 512
MaxDurationMs == 60000

(***************************************************************************)
(* Bounds of the model.                                                    *)
(***************************************************************************)
MaxFrames == 5        \* Results processed on the stream
MaxTime == 2          \* readings time.Now() can return: 1..MaxTime
MaxLoggedFrames == 2  \* Results processed on a stream whose messages are logged
MaxCalls == 3         \* ProcessChunk calls made on the engine bench
MaxResets == 1        \* Reset calls made on the engine bench
MaxStreams == 2       \* DetectSpeech invocations arriving during startup
MaxResults == 6       \* process() calls made on the detector bench
MaxCloses == 2        \* Close calls made on the engine bench
MaxCallers == 2       \* goroutines calling NewSileroEngine
MaxConstructions == 2 \* NewSileroEngine calls each goroutine makes
MaxIsoFrames == 1     \* Results processed on each of the concurrent streams

\* A nil pointer or nil interface value.
Nil == [nil |-> TRUE]
\* An optional JSON field (a *T after Unmarshal): None, or Some(v).
None == << >>
Some(v) == << v >>
ZeroTime == 0
NoStatus == [code |-> "none", msg |-> ""]

max(a, b) == IF a >= b THEN a ELSE b

\* Go integer division truncates toward zero.
GoDiv(a, b) == IF a >= 0 THEN a \div b ELSE -((-a) \div b)

\* A division that rounds down instead of up.
ceilDivFloor(a, b) == GoDiv(a, b)

ceilDiv(a, b) == GoDiv(a + b - 1, b)

(***************************************************************************)
(* Boundary detector.                                                      *)
(***************************************************************************)
newBoundaryDetector(c, fd) ==
    [ inSpeech         |-> FALSE,
      speechFrames     |-> 0,
      silenceFrames    |-> 0,
      lastConfidence   |-> 0,
      minSpeechFrames  |-> max(1, ceilDiv(c.MinSpeechDurationMs, fd)),
      minSilenceFrames |-> max(1, ceilDiv(c.MinSilenceDurationMs, fd)) ]

Event(t, conf) == [Type |-> t, Confidence |-> conf]

\* process with the START test off by one (> for >=).
processStrictStart(d, result) ==
    LET d0 == [d EXCEPT !.lastConfidence = result.Confidence] IN
    IF result.IsSpeech
    THEN LET d1 == [d0 EXCEPT !.speechFrames = @ + 1, !.silenceFrames = 0] IN
         IF ~d1.inSpeech /\ d1.speechFrames > d1.minSpeechFrames
         THEN [bd |-> [d1 EXCEPT !.inSpeech = TRUE],
               events |-> << Event("START", result.Confidence) >>]
         ELSE IF d1.inSpeech
         THEN [bd |-> d1, events |-> << Event("ONGOING", result.Confidence) >>]
         ELSE [bd |-> d1, events |-> << >>]
    ELSE LET d1 == [d0 EXCEPT !.silenceFrames = @ + 1, !.speechFrames = 0] IN
         IF d1.inSpeech /\ d1.silenceFrames >= d1.minSilenceFrames
         THEN [bd |-> [d1 EXCEPT !.inSpeech = FALSE],
               events |-> << Event("END", result.Confidence) >>]
         ELSE [bd |-> d1, events |-> << >>]

\* process with the END test ignoring the silence run (END at the first
\* silence Result in speech).
processEagerEnd(d, result) ==
    LET d0 == [d EXCEPT !.lastConfidence = result.Confidence] IN
    IF result.IsSpeech
    THEN LET d1 == [d0 EXCEPT !.speechFrames = @ + 1, !.silenceFrames = 0] IN
         IF ~d1.inSpeech /\ d1.speechFrames >= d1.minSpeechFrames
         THEN [bd |-> [d1 EXCEPT !.inSpeech = TRUE],
               events |-> << Event("START", result.Confidence) >>]
         ELSE IF d1.inSpeech
         THEN [bd |-> d1, events |-> << Event("ONGOING", result.Confidence) >>]
         ELSE [bd |-> d1, events |-> << >>]
    ELSE LET d1 == [d0 EXCEPT !.silenceFrames = @ + 1, !.speechFrames = 0] IN
         IF d1.inSpeech
         THEN [bd |-> [d1 EXCEPT !.inSpeech = FALSE],
               events |-> << Event("END", result.Confidence) >>]
         ELSE [bd |-> d1, events |-> << >>]

\* process with the END test off by one (> for >=).
processStrictEnd(d, result) ==
    LET d0 == [d EXCEPT !.lastConfidence = result.Confidence] IN
    IF result.IsSpeech
    THEN LET d1 == [d0 EXCEPT !.speechFrames = @ + 1, !.silenceFrames = 0] IN
         IF ~d1.inSpeech /\ d1.speechFrames >= d1.minSpeechFrames
         THEN [bd |-> [d1 EXCEPT !.inSpeech = TRUE],
               events |-> << Event("START", result.Confidence) >>]
         ELSE IF d1.inSpeech
         THEN [bd |-> d1, events |-> << Event("ONGOING", result.Confidence) >>]
         ELSE [bd |-> d1, events |-> << >>]
    ELSE LET d1 == [d0 EXCEPT !.silenceFrames = @ + 1, !.speechFrames = 0] IN
         IF d1.inSpeech /\ d1.silenceFrames > d1.minSilenceFrames
         THEN [bd |-> [d1 EXCEPT !.inSpeech = FALSE],
               events |-> << Event("END", result.Confidence) >>]
         ELSE [bd |-> d1, events |-> << >>]

\* process with the silence branch leaving speechFrames as it was.
processKeepSpeechRun(d, result) ==
    LET d0 == [d EXCEPT !.lastConfidence = result.Confidence] IN
    IF result.IsSpeech
    THEN LET d1 == [d0 EXCEPT !.speechFrames = @ + 1, !.silenceFrames = 0] IN
         IF ~d1.inSpeech /\ d1.speechFrames >= d1.minSpeechFrames
         THEN [bd |-> [d1 EXCEPT !.inSpeech = TRUE],
               events |-> << Event("START", result.Confidence) >>]
         ELSE IF d1.inSpeech
         THEN [bd |-> d1, events |-> << Event("ONGOING", result.Confidence) >>]
         ELSE [bd |-> d1, events |-> << >>]
    ELSE LET d1 == [d0 EXCEPT !.silenceFrames = @ + 1] IN
         IF d1.inSpeech /\ d1.silenceFrames >= d1.minSilenceFrames
         THEN [bd |-> [d1 EXCEPT !.inSpeech = FALSE],
               events |-> << Event("END", result.Confidence) >>]
         ELSE [bd |-> d1, events |-> << >>]

\* A process() whose speech branch leaves the silence run as it was.
processKeepSilenceRun(d, result) ==
    LET d0 == [d EXCEPT !.lastConfidence = result.Confidence] IN
    IF result.IsSpeech
    THEN LET d1 == [d0 EXCEPT !.speechFrames = @ + 1] IN
         IF ~d1.inSpeech /\ d1.speechFrames >= d1.minSpeechFrames
         THEN [bd |-> [d1 EXCEPT !.inSpeech = TRUE],
               events |-> << Event("START", result.Confidence) >>]
         ELSE IF d1.inSpeech
         THEN [bd |-> d1, events |-> << Event("ONGOING", result.Confidence) >>]
         ELSE [bd |-> d1, events |-> << >>]
    ELSE LET d1 == [d0 EXCEPT !.silenceFrames = @ + 1, !.speechFrames = 0] IN
         IF d1.inSpeech /\ d1.silenceFrames >= d1.minSilenceFrames
         THEN [bd |-> [d1 EXCEPT !.inSpeech = FALSE],
               events |-> << Event("END", result.Confidence) >>]
         ELSE [bd |-> d1, events |-> << >>]

\* bd.process(result): the detector after the call and the events returned.
process(d, result) ==
    LET d0 == [d EXCEPT !.lastConfidence = result.Confidence] IN
    IF result.IsSpeech
    THEN LET d1 == [d0 EXCEPT !.speechFrames = @ + 1, !.silenceFrames = 0] IN
         IF ~d1.inSpeech /\ d1.speechFrames >= d1.minSpeechFrames
         THEN [bd |-> [d1 EXCEPT !.inSpeech = TRUE],
               events |-> << Event("START", result.Confidence) >>]
         ELSE IF d1.inSpeech
         THEN [bd |-> d1, events |-> << Event("ONGOING", result.Confidence) >>]
         ELSE [bd |-> d1, events |-> << >>]
    ELSE LET d1 == [d0 EXCEPT !.silenceFrames = @ + 1, !.speechFrames = 0] IN
         IF d1.inSpeech /\ d1.silenceFrames >= d1.minSilenceFrames
         THEN [bd |-> [d1 EXCEPT !.inSpeech = FALSE],
               events |-> << Event("END", result.Confidence) >>]
         ELSE [bd |-> d1, events |-> << >>]

(***************************************************************************)
(* Stream config.  A config_json string is modelled by what json.Unmarshal *)
(* makes of it: kind "empty" (""), "blank" (white space only), "malformed" *)
(* (Unmarshal fails) or "object" with its optional fields.                 *)
(***************************************************************************)
Config(th, sp, si) ==
    [Threshold |-> th, MinSpeechDurationMs |-> sp, MinSilenceDurationMs |-> si]

ConfigJSON(kind, th, sp, si, pad) ==
    [kind |-> kind, Threshold |-> th, MinSpeechDurationMs |-> sp,
     MinSilenceDurationMs |-> si, SpeechPadMs |-> pad]

CJEmpty == ConfigJSON("empty", None, None, None, None)
CJBlank == ConfigJSON("blank", None, None, None, None)
CJMalformed == ConfigJSON("malformed", None, None, None, None)
CJObject(th, sp, si, pad) == ConfigJSON("object", th, sp, si, pad)

\* Config.ValidateVADParams: "" when the VAD parameters are in range.
ValidateVADParams(c) ==
    IF c.Threshold < 0 \/ c.Threshold > 100 THEN "threshold"
    ELSE IF c.MinSpeechDurationMs <= 0 \/ c.MinSpeechDurationMs > MaxDurationMs
    THEN "min_speech_duration_ms"
    ELSE IF c.MinSilenceDurationMs <= 0 \/ c.MinSilenceDurationMs > MaxDurationMs
    THEN "min_silence_duration_ms"
    ELSE ""

\* applyStreamConfig without the speech_pad_ms rejection.
applyStreamConfigNoPadCheck(configJSON, c) ==
    IF configJSON.kind \in {"empty", "blank"} THEN [err |-> "", cfg |-> c]
    ELSE IF configJSON.kind = "malformed" THEN [err |-> "invalid config_json", cfg |-> c]
    ELSE LET c1 == IF configJSON.Threshold # None
                   THEN [c EXCEPT !.Threshold = configJSON.Threshold[1]] ELSE c
             c2 == IF configJSON.MinSpeechDurationMs # None
                   THEN [c1 EXCEPT !.MinSpeechDurationMs = configJSON.MinSpeechDurationMs[1]]
                   ELSE c1
             c3 == IF configJSON.MinSilenceDurationMs # None
                   THEN [c2 EXCEPT !.MinSilenceDurationMs = configJSON.MinSilenceDurationMs[1]]
                   ELSE c2
         IN [err |-> ValidateVADParams(c3), cfg |-> c3]

\* applyStreamConfig starting each call from the process defaults: a field
\* absent from configJSON falls back to Server.cfg.
applyStreamConfigFromDefaults(configJSON, c) ==
    IF configJSON.kind \in {"empty", "blank"} THEN [err |-> "", cfg |-> c]
    ELSE IF configJSON.kind = "malformed" THEN [err |-> "invalid config_json", cfg |-> c]
    ELSE IF configJSON.SpeechPadMs # None THEN [err |-> "speech_pad_ms", cfg |-> c]
    ELSE LET c1 == IF configJSON.Threshold # None
                   THEN [cfg EXCEPT !.Threshold = configJSON.Threshold[1]] ELSE cfg
             c2 == IF configJSON.MinSpeechDurationMs # None
                   THEN [c1 EXCEPT !.MinSpeechDurationMs = configJSON.MinSpeechDurationMs[1]]
                   ELSE c1
             c3 == IF configJSON.MinSilenceDurationMs # None
                   THEN [c2 EXCEPT !.MinSilenceDurationMs = configJSON.MinSilenceDurationMs[1]]
                   ELSE c2
         IN [err |-> ValidateVADParams(c3), cfg |-> c3]

\* applyStreamConfig(configJSON, &cfg): the error ("" for nil) and cfg after the call.
applyStreamConfig(configJSON, c) ==
    IF configJSON.kind \in {"empty", "blank"} THEN [err |-> "", cfg |-> c]
    ELSE IF configJSON.kind = "malformed" THEN [err |-> "invalid config_json", cfg |-> c]
    ELSE IF configJSON.SpeechPadMs # None THEN [err |-> "speech_pad_ms", cfg |-> c]
    ELSE LET c1 == IF configJSON.Threshold # None
                   THEN [c EXCEPT !.Threshold = configJSON.Threshold[1]] ELSE c
             c2 == IF configJSON.MinSpeechDurationMs # None
                   THEN [c1 EXCEPT !.MinSpeechDurationMs = configJSON.MinSpeechDurationMs[1]]
                   ELSE c1
             c3 == IF configJSON.MinSilenceDurationMs # None
                   THEN [c2 EXCEPT !.MinSilenceDurationMs = configJSON.MinSilenceDurationMs[1]]
                   ELSE c2
         IN [err |-> ValidateVADParams(c3), cfg |-> c3]

(***************************************************************************)
(* Audio format.  A message's format is Nil or a record; a field left out  *)
(* on the wire reads as 0 or "".                                           *)
(***************************************************************************)
AudioFormat(sr, enc, ch, bits) ==
    [SampleRate |-> sr, Encoding |-> enc, Channels |-> ch, BitDepth |-> bits]

\* The encoding, channels and bit_depth checks shared by the three
\* validation sites: "" when every non-zero field is accepted.
checkFormatFields(af) ==
    IF af.Encoding # "" /\ af.Encoding # "pcm_s16le" THEN "unsupported encoding"
    ELSE IF af.Channels # 0 /\ af.Channels # 1 THEN "unsupported channels"
    ELSE IF af.BitDepth # 0 /\ af.BitDepth # 16 THEN "unsupported bit_depth"
    ELSE ""

(***************************************************************************)
(* Engines.  An engine value is a record; pcmBuf counts buffered samples.  *)
(* Silero's inference (the ONNX session and its carried hidden state) is   *)
(* outside the repository: each window's probability is an input, probs[i] *)
(* for the i-th window of the call, and inferFail is the window at which   *)
(* the session reports an error (0: none).                                 *)
(***************************************************************************)
Result(isSpeech, conf) == [IsSpeech |-> isSpeech, Confidence |-> conf]

Engine(kind, th) ==
    [kind |-> kind, counter |-> 0, speaking |-> FALSE, pcmBuf |-> 0,
     threshold |-> th, closed |-> FALSE]

NewStubEngine == Engine("stub", 0)

NewSileroEngine(threshold) == Engine("silero", threshold)

\* An Engine implementation whose FrameDurationMs() is not positive.
NewZeroFrameEngine == Engine("zerofd", 0)

\* The stub's frame loop toggling one frame late.
RECURSIVE stubLoopLateToggle(_, _)
stubLoopLateToggle(e, results) ==
    IF e.pcmBuf >= stubSamplesPerFrame
    THEN LET c == e.counter + 1
             toggle == c > StubToggleInterval
             e1 == [e EXCEPT !.pcmBuf = @ - stubSamplesPerFrame,
                             !.counter = IF toggle THEN 0 ELSE c,
                             !.speaking = IF toggle THEN ~@ ELSE @]
         IN stubLoopLateToggle(e1, Append(results, Result(e1.speaking, StubConfidence)))
    ELSE [eng |-> e, results |-> results, err |-> ""]

RECURSIVE stubLoop(_, _)
stubLoop(e, results) ==
    IF e.pcmBuf >= stubSamplesPerFrame
    THEN LET c == e.counter + 1
             toggle == c >= StubToggleInterval
             e1 == [e EXCEPT !.pcmBuf = @ - stubSamplesPerFrame,
                             !.counter = IF toggle THEN 0 ELSE c,
                             !.speaking = IF toggle THEN ~@ ELSE @]
         IN stubLoop(e1, Append(results, Result(e1.speaking, StubConfidence)))
    ELSE [eng |-> e, results |-> results, err |-> ""]

\* StubProcessChunk counting every byte as a sample.
StubProcessChunkBytes(e, pcmLen, sr) ==
    IF sr # ExpectedSampleRate
    THEN [eng |-> e, results |-> << >>, err |-> "ErrWrongSampleRate"]
    ELSE IF pcmLen % 2 # 0
    THEN [eng |-> e, results |-> << >>, err |-> "odd length"]
    ELSE stubLoop([e EXCEPT !.pcmBuf = @ + pcmLen], << >>)

\* StubProcessChunk checking the length before the sample rate.
StubProcessChunkLengthFirst(e, pcmLen, sr) ==
    IF pcmLen % 2 # 0
    THEN [eng |-> e, results |-> << >>, err |-> "odd length"]
    ELSE IF sr # ExpectedSampleRate
    THEN [eng |-> e, results |-> << >>, err |-> "ErrWrongSampleRate"]
    ELSE stubLoop([e EXCEPT !.pcmBuf = @ + pcmLen \div 2], << >>)

StubProcessChunk(e, pcmLen, sr) ==
    IF sr # ExpectedSampleRate
    THEN [eng |-> e, results |-> << >>, err |-> "ErrWrongSampleRate"]
    ELSE IF pcmLen % 2 # 0
    THEN [eng |-> e, results |-> << >>, err |-> "odd length"]
    ELSE stubLoop([e EXCEPT !.pcmBuf = @ + pcmLen \div 2], << >>)

RECURSIVE sileroLoop(_, _, _, _)
sileroLoop(e, results, probs, inferFail) ==
    IF e.pcmBuf >= sileroWindowSize
    THEN LET i == Len(results) + 1 IN
         IF i = inferFail
         THEN [eng |-> e, results |-> << >>, err |-> "infer"]
         ELSE sileroLoop([e EXCEPT !.pcmBuf = @ - sileroWindowSize],
                         Append(results, Result(probs[i] >= e.threshold, probs[i])),
                         probs, inferFail)
    ELSE [eng |-> e, results |-> results, err |-> ""]

\* SileroProcessChunk forgetting the samples left from the call before.
SileroProcessChunkNoCarry(e, pcmLen, sr, probs, inferFail) ==
    IF sr # ExpectedSampleRate
    THEN [eng |-> e, results |-> << >>, err |-> "ErrWrongSampleRate"]
    ELSE IF pcmLen % 2 # 0
    THEN [eng |-> e, results |-> << >>, err |-> "odd length"]
    ELSE sileroLoop([e EXCEPT !.pcmBuf = pcmLen \div 2], << >>, probs, inferFail)

SileroProcessChunk(e, pcmLen, sr, probs, inferFail) ==
    IF sr # ExpectedSampleRate
    THEN [eng |-> e, results |-> << >>, err |-> "ErrWrongSampleRate"]
    ELSE IF pcmLen % 2 # 0
    THEN [eng |-> e, results |-> << >>, err |-> "odd length"]
    ELSE sileroLoop([e EXCEPT !.pcmBuf = @ + pcmLen \div 2], << >>, probs, inferFail)

\* Engine.ProcessChunk, dispatched on the implementation.
ProcessChunk(e, pcmLen, sr, probs, inferFail) ==
    IF e.kind = "silero" THEN SileroProcessChunk(e, pcmLen, sr, probs, inferFail)
    ELSE StubProcessChunk(e, pcmLen, sr)

\* Engine.FrameDurationMs.
FrameDurationMs(e) ==
    IF e.kind = "silero" THEN (sileroWindowSize * 1000) \div ExpectedSampleRate
    ELSE IF e.kind = "stub" THEN stubFrameDurationMs
    ELSE 0

\* Engine.SetThreshold: a no-op for the stub.
SetThreshold(e, th) ==
    IF e.kind = "silero" THEN [e EXCEPT !.threshold = th] ELSE e

\* Engine.Reset on the engine record: the stub returns to counter 0, silence
\* and an empty buffer; Silero empties its buffer. The threshold stays.
Reset(e) ==
    IF e.kind = "silero" THEN [e EXCEPT !.pcmBuf = 0]
    ELSE [e EXCEPT !.counter = 0, !.speaking = FALSE, !.pcmBuf = 0]

\* The ONNX Runtime objects a SileroEngine owns: session, inputTensor,
\* stateTensor, srTensor, outputTensor, stateNTensor.
SileroHandles == 6

\* A Close that destroys its handles whether or not they are nil.
CloseUnchecked(e) ==
    [eng |-> [e EXCEPT !.closed = TRUE], err |-> "",
     destroyed |-> IF e.kind = "silero" THEN SileroHandles ELSE 0]

\* Engine.Close: Silero destroys every handle that is not nil and sets it to
\* nil; the stub does nothing.  closed says that Close was called; destroyed
\* counts the Destroy calls made.
Close(e) ==
    [eng |-> [e EXCEPT !.closed = TRUE], err |-> "",
     destroyed |-> IF e.kind = "silero" /\ ~e.closed THEN SileroHandles ELSE 0]

\* Reset leaving Silero's state tensor as it is.
ResetStateKeep(e, st) == st

\* Engine.Reset on Silero's state tensor (clearFloat32Slice); the stub has none.
ResetState(e, st) == IF e.kind = "silero" THEN 0 ELSE st

\* Samples per inference window of the engine.
WindowSamples(e) ==
    IF e.kind = "silero" THEN sileroWindowSize ELSE stubSamplesPerFrame

(***************************************************************************)
(* DetectSpeech.  L is the record of the stream's local variables (and     *)
(* the history variables); a message m is [format, pcmLen, configJSON].    *)
(***************************************************************************)
Locals ==
    [ pc |-> pc, status |-> status, streamCfg |-> streamCfg, eng |-> eng,
      engineReady |-> engineReady, formatKnown |-> formatKnown, bd |-> bd,
      cachedFormat |-> cachedFormat, sampleRate |-> sampleRate,
      frameDurationMs |-> frameDurationMs, streamStart |-> streamStart,
      frameCount |-> frameCount, sent |-> sent, factoryCalls |-> factoryCalls,
      closeCalls |-> closeCalls, chunkAfterClose |-> chunkAfterClose,
      resultsTotal |-> resultsTotal, lastCall |-> lastCall, sentFrom |-> sentFrom,
      factoryMsg |-> factoryMsg, callFirst |-> callFirst,
      chunkCall |-> chunkCall ]

Commit(L) ==
    /\ pc' = L.pc
    /\ status' = L.status
    /\ streamCfg' = L.streamCfg
    /\ eng' = L.eng
    /\ engineReady' = L.engineReady
    /\ formatKnown' = L.formatKnown
    /\ bd' = L.bd
    /\ cachedFormat' = L.cachedFormat
    /\ sampleRate' = L.sampleRate
    /\ frameDurationMs' = L.frameDurationMs
    /\ streamStart' = L.streamStart
    /\ frameCount' = L.frameCount
    /\ sent' = L.sent
    /\ factoryCalls' = L.factoryCalls
    /\ closeCalls' = L.closeCalls
    /\ chunkAfterClose' = L.chunkAfterClose
    /\ resultsTotal' = L.resultsTotal
    /\ lastCall' = L.lastCall
    /\ sentFrom' = L.sentFrom
    /\ factoryMsg' = L.factoryMsg
    /\ callFirst' = L.callFirst
    /\ chunkCall' = L.chunkCall

\* deferredClose that closes only an engine that finished initEngine.
deferredCloseIfReady(L) ==
    IF L.engineReady
    THEN [L EXCEPT !.eng = [@ EXCEPT !.closed = TRUE], !.closeCalls = @ + 1]
    ELSE L

\* The deferred function: Close the engine if one was assigned.
deferredClose(L) ==
    IF L.eng # Nil
    THEN [L EXCEPT !.eng = [@ EXCEPT !.closed = TRUE], !.closeCalls = @ + 1]
    ELSE L

\* A return statement of DetectSpeech: the deferred function runs, then the
\* call ends with the given status.
Return(L, code, msg) ==
    [deferredClose(L) EXCEPT !.pc = "done", !.status = [code |-> code, msg |-> msg]]

\* An initEngine that leaves the engine's threshold as the factory set it.
initEngineNoThreshold(L, made) ==
    IF L.engineReady THEN [err |-> "", L |-> L]
    ELSE LET L1 == [L EXCEPT !.eng = made, !.factoryCalls = @ + 1] IN
         IF made = Nil
         THEN [err |-> "engine creation failed", L |-> L1]
         ELSE LET e == made
                  fd == FrameDurationMs(e)
                  L2 == [L1 EXCEPT !.eng = e, !.frameDurationMs = fd]
              IN IF fd <= 0
                 THEN [err |-> "invalid frame duration", L |-> L2]
                 ELSE [err |-> "",
                       L |-> [L2 EXCEPT !.bd = newBoundaryDetector(L.streamCfg, fd),
                                        !.engineReady = TRUE]]

\* initEngine, with `made` the value s.newEngine() returns.
initEngine(L, made) ==
    IF L.engineReady THEN [err |-> "", L |-> L]
    ELSE LET L1 == [L EXCEPT !.eng = made, !.factoryCalls = @ + 1] IN
         IF made = Nil
         THEN [err |-> "engine creation failed", L |-> L1]
         ELSE LET e == SetThreshold(made, L.streamCfg.Threshold)
                  fd == FrameDurationMs(e)
                  L2 == [L1 EXCEPT !.eng = e, !.frameDurationMs = fd]
              IN IF fd <= 0
                 THEN [err |-> "invalid frame duration", L |-> L2]
                 ELSE [err |-> "",
                       L |-> [L2 EXCEPT !.bd = newBoundaryDetector(L.streamCfg, fd),
                                        !.engineReady = TRUE]]

\* formatPhase caching every format received before the first PCM, also one
\* without sample_rate.
formatPhaseCacheAny(L, m) ==
    LET af == m.format IN
    IF ~L.formatKnown
    THEN IF af # Nil
         THEN IF checkFormatFields(af) # "" THEN [err |-> checkFormatFields(af), L |-> L]
              ELSE IF af.SampleRate # 0 /\ af.SampleRate # ExpectedSampleRate
              THEN [err |-> "unsupported sample_rate", L |-> L]
              ELSE [err |-> "", L |-> [L EXCEPT !.cachedFormat = af]]
         ELSE [err |-> "", L |-> L]
    ELSE IF af # Nil
         THEN IF af.SampleRate # 0 /\ af.SampleRate # L.sampleRate
              THEN [err |-> "sample_rate changed mid-stream", L |-> L]
              ELSE [err |-> checkFormatFields(af), L |-> L]
         ELSE [err |-> "", L |-> L]

\* formatPhase re-validating the format only on messages that carry PCM.
formatPhaseSkipEmpty(L, m) ==
    LET af == m.format IN
    IF ~L.formatKnown
    THEN IF af # Nil /\ af.SampleRate > 0
         THEN IF checkFormatFields(af) # "" THEN [err |-> checkFormatFields(af), L |-> L]
              ELSE IF af.SampleRate # ExpectedSampleRate
              THEN [err |-> "unsupported sample_rate", L |-> L]
              ELSE [err |-> "", L |-> [L EXCEPT !.cachedFormat = af]]
         ELSE [err |-> "", L |-> L]
    ELSE IF af # Nil /\ m.pcmLen > 0
         THEN IF af.SampleRate # 0 /\ af.SampleRate # L.sampleRate
              THEN [err |-> "sample_rate changed mid-stream", L |-> L]
              ELSE [err |-> checkFormatFields(af), L |-> L]
         ELSE [err |-> "", L |-> L]

\* Format caching before the first PCM, consistency checks after it.
formatPhase(L, m) ==
    LET af == m.format IN
    IF ~L.formatKnown
    THEN IF af # Nil /\ af.SampleRate > 0
         THEN IF checkFormatFields(af) # "" THEN [err |-> checkFormatFields(af), L |-> L]
              ELSE IF af.SampleRate # ExpectedSampleRate
              THEN [err |-> "unsupported sample_rate", L |-> L]
              ELSE [err |-> "", L |-> [L EXCEPT !.cachedFormat = af]]
         ELSE [err |-> "", L |-> L]
    ELSE IF af # Nil
         THEN IF af.SampleRate # 0 /\ af.SampleRate # L.sampleRate
              THEN [err |-> "sample_rate changed mid-stream", L |-> L]
              ELSE [err |-> checkFormatFields(af), L |-> L]
         ELSE [err |-> "", L |-> L]

\* firstPcmFormat preferring the message's format to the cached one.
firstPcmFormatPreferRequest(L, m) ==
    LET reqFmt == m.format
        e1 == IF reqFmt = Nil THEN ""
              ELSE IF /\ L.cachedFormat # Nil
                      /\ reqFmt.SampleRate # 0
                      /\ reqFmt.SampleRate # L.cachedFormat.SampleRate
              THEN "sample_rate mismatch"
              ELSE checkFormatFields(reqFmt)
        af == IF reqFmt # Nil THEN reqFmt ELSE L.cachedFormat
    IN IF e1 # "" THEN [err |-> e1, L |-> L]
       ELSE IF af = Nil THEN [err |-> "audio format required", L |-> L]
       ELSE LET L1 == [L EXCEPT !.sampleRate = af.SampleRate] IN
            IF af.SampleRate = 0
            THEN [err |-> "audio format must include sample_rate", L |-> L1]
            ELSE IF af.SampleRate # ExpectedSampleRate
            THEN [err |-> "unsupported sample_rate", L |-> L1]
            ELSE [err |-> "", L |-> [L1 EXCEPT !.formatKnown = TRUE]]

\* Format validation at the first non-empty PCM chunk.
firstPcmFormat(L, m) ==
    LET reqFmt == m.format
        e1 == IF reqFmt = Nil THEN ""
              ELSE IF /\ L.cachedFormat # Nil
                      /\ reqFmt.SampleRate # 0
                      /\ reqFmt.SampleRate # L.cachedFormat.SampleRate
              THEN "sample_rate mismatch"
              ELSE checkFormatFields(reqFmt)
        af == IF L.cachedFormat # Nil THEN L.cachedFormat ELSE reqFmt
    IN IF e1 # "" THEN [err |-> e1, L |-> L]
       ELSE IF af = Nil THEN [err |-> "audio format required", L |-> L]
       ELSE LET L1 == [L EXCEPT !.sampleRate = af.SampleRate] IN
            IF af.SampleRate = 0
            THEN [err |-> "audio format must include sample_rate", L |-> L1]
            ELSE IF af.SampleRate # ExpectedSampleRate
            THEN [err |-> "unsupported sample_rate", L |-> L1]
            ELSE [err |-> "", L |-> [L1 EXCEPT !.formatKnown = TRUE]]

\* PCM checks without the even-length check.
checkPcmAnyParity(pcmLen) ==
    IF pcmLen > MaxPCMChunkBytes THEN "PCM chunk too large"
    ELSE ""

\* checkPcm refusing a chunk of exactly MaxPCMChunkBytes as well.
checkPcmStrict(pcmLen) ==
    IF pcmLen % 2 # 0 THEN "odd length"
    ELSE IF pcmLen >= MaxPCMChunkBytes THEN "PCM chunk too large"
    ELSE ""

\* PCM validation before the engine is created or fed.
checkPcm(pcmLen) ==
    IF pcmLen % 2 # 0 THEN "odd length"
    ELSE IF pcmLen > MaxPCMChunkBytes THEN "PCM chunk too large"
    ELSE ""

\* First PCM: finalize the config and initialize the engine.
firstPcmInit(L, m, made) ==
    IF L.engineReady THEN [code |-> "", err |-> "", L |-> L]
    ELSE LET a == applyStreamConfig(m.configJSON, L.streamCfg)
             L1 == [L EXCEPT !.streamCfg = a.cfg]
         IN IF a.err # "" THEN [code |-> "InvalidArgument", err |-> a.err, L |-> L1]
            ELSE LET i == initEngine([L1 EXCEPT !.factoryMsg = m], made) IN
                 [code |-> IF i.err # "" THEN "Internal" ELSE "", err |-> i.err, L |-> i.L]

\* event timestamp: audio time of frame frameCount.
audioTime(start, count, fd) == start + count * fd

Stamp(evt, ts) ==
    [Type |-> evt.Type, Confidence |-> evt.Confidence, Timestamp |-> ts]

\* sendLoop stamping by the number of events sent so far.
RECURSIVE sendLoopEventIndex(_, _, _, _, _, _)
sendLoopEventIndex(L, events, j, idx, nSent, sendFail) ==
    IF j > Len(events) THEN [L |-> L, failed |-> FALSE, nSent |-> nSent]
    ELSE IF nSent + 1 = sendFail THEN [L |-> L, failed |-> TRUE, nSent |-> nSent]
    ELSE LET ts == audioTime(L.streamStart, Len(L.sent), L.frameDurationMs) IN
         sendLoopEventIndex([L EXCEPT !.sent = Append(@, Stamp(events[j], ts)),
                                      !.sentFrom = Append(@, idx)],
                            events, j + 1, idx, nSent + 1, sendFail)

\* The inner loop: stamp and send the events of one Result.  nSent counts the
\* Send calls of this iteration so far; the sendFail-th of them fails (0: none).
RECURSIVE sendLoop(_, _, _, _, _, _)
sendLoop(L, events, j, idx, nSent, sendFail) ==
    IF j > Len(events) THEN [L |-> L, failed |-> FALSE, nSent |-> nSent]
    ELSE IF nSent + 1 = sendFail THEN [L |-> L, failed |-> TRUE, nSent |-> nSent]
    ELSE LET ts == audioTime(L.streamStart, L.frameCount, L.frameDurationMs) IN
         sendLoop([L EXCEPT !.sent = Append(@, Stamp(events[j], ts)),
                            !.sentFrom = Append(@, idx)],
                  events, j + 1, idx, nSent + 1, sendFail)

\* resultLoop counting a frame only when its Result produced an event.
RECURSIVE resultLoopCountEvents(_, _, _, _, _, _)
resultLoopCountEvents(L, results, i, base, nSent, sendFail) ==
    IF i > Len(results) THEN [L |-> L, failed |-> FALSE]
    ELSE LET out == process(L.bd, results[i])
             call == [idx |-> base + i - 1, pre |-> L.bd, result |-> results[i],
                      events |-> out.events, post |-> out.bd]
             L1 == [L EXCEPT !.bd = out.bd, !.lastCall = call]
             s == sendLoop(L1, out.events, 1, base + i - 1, nSent, sendFail)
         IN IF s.failed THEN [L |-> s.L, failed |-> TRUE]
            ELSE resultLoopCountEvents(
                     [s.L EXCEPT !.frameCount = @ + Len(out.events)],
                     results, i + 1, base, s.nSent, sendFail)

\* The loop over the Results of one ProcessChunk call; base is the number of
\* Results the engine had returned before this call.
RECURSIVE resultLoop(_, _, _, _, _, _)
resultLoop(L, results, i, base, nSent, sendFail) ==
    IF i > Len(results) THEN [L |-> L, failed |-> FALSE]
    ELSE LET out == process(L.bd, results[i])
             call == [idx |-> base + i - 1, pre |-> L.bd, result |-> results[i],
                      events |-> out.events, post |-> out.bd]
             L1 == [L EXCEPT !.bd = out.bd, !.lastCall = call]
             s == sendLoop(L1, out.events, 1, base + i - 1, nSent, sendFail)
         IN IF s.failed THEN [L |-> s.L, failed |-> TRUE]
            ELSE resultLoop([s.L EXCEPT !.frameCount = @ + 1],
                            results, i + 1, base, s.nSent, sendFail)

\* Handle applying the config_json of every message without PCM, also after
\* the engine is ready.
HandleConfigAlways(L0, m, made, t) ==
    LET L == [L0 EXCEPT !.factoryMsg = Nil]
        f == formatPhase(L, m)
    IN
    IF f.err # "" THEN [L |-> Return(f.L, "InvalidArgument", f.err), feed |-> FALSE]
    ELSE IF m.pcmLen = 0
    THEN LET a == applyStreamConfig(m.configJSON, f.L.streamCfg)
             L1 == [f.L EXCEPT !.streamCfg = a.cfg]
         IN IF a.err # ""
            THEN [L |-> Return(L1, "InvalidArgument", a.err), feed |-> FALSE]
            ELSE [L |-> L1, feed |-> FALSE]
    ELSE LET g == IF ~f.L.formatKnown THEN firstPcmFormat(f.L, m)
                  ELSE [err |-> "", L |-> f.L]
         IN
         IF g.err # "" THEN [L |-> Return(g.L, "InvalidArgument", g.err), feed |-> FALSE]
         ELSE IF checkPcm(m.pcmLen) # ""
         THEN [L |-> Return(g.L, "InvalidArgument", checkPcm(m.pcmLen)), feed |-> FALSE]
         ELSE LET h == firstPcmInit(g.L, m, made) IN
              IF h.err # "" THEN [L |-> Return(h.L, h.code, h.err), feed |-> FALSE]
              ELSE [L |-> [h.L EXCEPT !.streamStart = IF @ = ZeroTime THEN t ELSE @],
                    feed |-> TRUE]

\* Handle reading the clock into streamStart at every PCM chunk.
HandleReanchor(L0, m, made, t) ==
    LET L == [L0 EXCEPT !.factoryMsg = Nil]
        f == formatPhase(L, m)
    IN
    IF f.err # "" THEN [L |-> Return(f.L, "InvalidArgument", f.err), feed |-> FALSE]
    ELSE IF m.pcmLen = 0
    THEN IF ~f.L.engineReady
         THEN LET a == applyStreamConfig(m.configJSON, f.L.streamCfg)
                  L1 == [f.L EXCEPT !.streamCfg = a.cfg]
              IN IF a.err # ""
                 THEN [L |-> Return(L1, "InvalidArgument", a.err), feed |-> FALSE]
                 ELSE [L |-> L1, feed |-> FALSE]
         ELSE [L |-> f.L, feed |-> FALSE]
    ELSE LET g == IF ~f.L.formatKnown THEN firstPcmFormat(f.L, m)
                  ELSE [err |-> "", L |-> f.L]
         IN
         IF g.err # "" THEN [L |-> Return(g.L, "InvalidArgument", g.err), feed |-> FALSE]
         ELSE IF checkPcm(m.pcmLen) # ""
         THEN [L |-> Return(g.L, "InvalidArgument", checkPcm(m.pcmLen)), feed |-> FALSE]
         ELSE LET h == firstPcmInit(g.L, m, made) IN
              IF h.err # "" THEN [L |-> Return(h.L, h.code, h.err), feed |-> FALSE]
              ELSE [L |-> [h.L EXCEPT !.streamStart = t],
                    feed |-> TRUE]

\* Handle with the engine created before the PCM checks.
HandleEngineFirst(L0, m, made, t) ==
    LET L == [L0 EXCEPT !.factoryMsg = Nil]
        f == formatPhase(L, m)
    IN
    IF f.err # "" THEN [L |-> Return(f.L, "InvalidArgument", f.err), feed |-> FALSE]
    ELSE IF m.pcmLen = 0
    THEN IF ~f.L.engineReady
         THEN LET a == applyStreamConfig(m.configJSON, f.L.streamCfg)
                  L1 == [f.L EXCEPT !.streamCfg = a.cfg]
              IN IF a.err # ""
                 THEN [L |-> Return(L1, "InvalidArgument", a.err), feed |-> FALSE]
                 ELSE [L |-> L1, feed |-> FALSE]
         ELSE [L |-> f.L, feed |-> FALSE]
    ELSE LET g == IF ~f.L.formatKnown THEN firstPcmFormat(f.L, m)
                  ELSE [err |-> "", L |-> f.L]
         IN
         IF g.err # "" THEN [L |-> Return(g.L, "InvalidArgument", g.err), feed |-> FALSE]
         ELSE LET h == firstPcmInit(g.L, m, made) IN
              IF h.err # "" THEN [L |-> Return(h.L, h.code, h.err), feed |-> FALSE]
              ELSE IF checkPcm(m.pcmLen) # ""
              THEN [L |-> Return(h.L, "InvalidArgument", checkPcm(m.pcmLen)),
                    feed |-> FALSE]
              ELSE [L |-> [h.L EXCEPT !.streamStart = IF @ = ZeroTime THEN t ELSE @],
                    feed |-> TRUE]

\* Handle anchoring the stream clock on a message without PCM as well.
HandleAnchorEmpty(L0, m, made, t) ==
    LET L == [L0 EXCEPT !.factoryMsg = Nil]
        f == formatPhase(L, m)
        anchor(X) == [X EXCEPT !.streamStart = IF @ = ZeroTime THEN t ELSE @]
    IN
    IF f.err # "" THEN [L |-> Return(f.L, "InvalidArgument", f.err), feed |-> FALSE]
    ELSE IF m.pcmLen = 0
    THEN IF ~f.L.engineReady
         THEN LET a == applyStreamConfig(m.configJSON, f.L.streamCfg)
                  L1 == [f.L EXCEPT !.streamCfg = a.cfg]
              IN IF a.err # ""
                 THEN [L |-> Return(L1, "InvalidArgument", a.err), feed |-> FALSE]
                 ELSE [L |-> anchor(L1), feed |-> FALSE]
         ELSE [L |-> anchor(f.L), feed |-> FALSE]
    ELSE LET g == IF ~f.L.formatKnown THEN firstPcmFormat(f.L, m)
                  ELSE [err |-> "", L |-> f.L]
         IN
         IF g.err # "" THEN [L |-> Return(g.L, "InvalidArgument", g.err), feed |-> FALSE]
         ELSE IF checkPcm(m.pcmLen) # ""
         THEN [L |-> Return(g.L, "InvalidArgument", checkPcm(m.pcmLen)), feed |-> FALSE]
         ELSE LET h == firstPcmInit(g.L, m, made) IN
              IF h.err # "" THEN [L |-> Return(h.L, h.code, h.err), feed |-> FALSE]
              ELSE [L |-> anchor(h.L), feed |-> TRUE]

\* The loop body up to and including the anchor: feed says whether the
\* iteration goes on to ProcessChunk.
Handle(L0, m, made, t) ==
    LET L == [L0 EXCEPT !.factoryMsg = Nil]
        f == formatPhase(L, m)
    IN
    IF f.err # "" THEN [L |-> Return(f.L, "InvalidArgument", f.err), feed |-> FALSE]
    ELSE IF m.pcmLen = 0
    THEN IF ~f.L.engineReady
         THEN LET a == applyStreamConfig(m.configJSON, f.L.streamCfg)
                  L1 == [f.L EXCEPT !.streamCfg = a.cfg]
              IN IF a.err # ""
                 THEN [L |-> Return(L1, "InvalidArgument", a.err), feed |-> FALSE]
                 ELSE [L |-> L1, feed |-> FALSE]
         ELSE [L |-> f.L, feed |-> FALSE]
    ELSE LET g == IF ~f.L.formatKnown THEN firstPcmFormat(f.L, m)
                  ELSE [err |-> "", L |-> f.L]
         IN
         IF g.err # "" THEN [L |-> Return(g.L, "InvalidArgument", g.err), feed |-> FALSE]
         ELSE IF checkPcm(m.pcmLen) # ""
         THEN [L |-> Return(g.L, "InvalidArgument", checkPcm(m.pcmLen)), feed |-> FALSE]
         ELSE LET h == firstPcmInit(g.L, m, made) IN
              IF h.err # "" THEN [L |-> Return(h.L, h.code, h.err), feed |-> FALSE]
              ELSE [L |-> [h.L EXCEPT !.streamStart = IF @ = ZeroTime THEN t ELSE @],
                    feed |-> TRUE]

\* Feed going on with the stream when ProcessChunk fails.
\* What the stream holds when it calls s.eng.ProcessChunk(pcm, sampleRate),
\* and the error the call returns.
ChunkCall(L, m, err) ==
    [ pcmLen |-> m.pcmLen, sampleRate |-> L.sampleRate,
      engine |-> L.eng # Nil, detector |-> L.bd # Nil,
      frameDurationMs |-> L.frameDurationMs,
      kind |-> L.eng.kind, threshold |-> L.eng.threshold, err |-> err ]

FeedIgnoreError(L, m, probs, inferFail, sendFail) ==
    LET r == ProcessChunk(L.eng, m.pcmLen, L.sampleRate, probs, inferFail)
        L1 == [L EXCEPT !.eng = r.eng, !.chunkAfterClose = @ \/ L.eng.closed,
                        !.resultsTotal = @ + Len(r.results),
                        !.callFirst = L.resultsTotal,
                        !.chunkCall = ChunkCall(L, m, r.err)]
    IN IF r.err # "" THEN L1
       ELSE LET s == resultLoop(L1, r.results, 1, L.resultsTotal, 0, sendFail) IN
            IF s.failed THEN Return(s.L, "Transport", "send") ELSE s.L

\* The rest of the loop body: ProcessChunk, the detector, the sends.
Feed(L, m, probs, inferFail, sendFail) ==
    LET r == ProcessChunk(L.eng, m.pcmLen, L.sampleRate, probs, inferFail)
        L1 == [L EXCEPT !.eng = r.eng, !.chunkAfterClose = @ \/ L.eng.closed,
                        !.resultsTotal = @ + Len(r.results),
                        !.callFirst = L.resultsTotal,
                        !.chunkCall = ChunkCall(L, m, r.err)]
    IN IF r.err # "" THEN Return(L1, "Internal", "audio processing failed")
       ELSE LET s == resultLoop(L1, r.results, 1, L.resultsTotal, 0, sendFail) IN
            IF s.failed THEN Return(s.L, "Transport", "send") ELSE s.L

\* eofFlush stamping the END with the slot of the last processed frame.
eofFlushPrevFrame(L, sendFails) ==
    IF L.bd # Nil /\ L.bd.inSpeech
    THEN IF sendFails THEN Return(L, "Transport", "send")
         ELSE LET ts == audioTime(L.streamStart, L.frameCount - 1, L.frameDurationMs)
                  evt == [Type |-> "END", Confidence |-> L.bd.lastConfidence,
                          Timestamp |-> ts]
              IN Return([L EXCEPT !.sent = Append(@, evt), !.sentFrom = Append(@, -1)],
                        "OK", "")
    ELSE Return(L, "OK", "")

\* eofFlush taking the confidence of the last event sent instead of the
\* detector's lastConfidence.
eofFlushEventConfidence(L, sendFails) ==
    IF L.bd # Nil /\ L.bd.inSpeech
    THEN IF sendFails THEN Return(L, "Transport", "send")
         ELSE LET ts == audioTime(L.streamStart, L.frameCount, L.frameDurationMs)
                  evt == [Type |-> "END",
                          Confidence |-> L.sent[Len(L.sent)].Confidence,
                          Timestamp |-> ts]
              IN Return([L EXCEPT !.sent = Append(@, evt), !.sentFrom = Append(@, -1)],
                        "OK", "")
    ELSE Return(L, "OK", "")

\* eofFlush that sends the END whenever a detector exists.
eofFlushAlways(L, sendFails) ==
    IF L.bd # Nil
    THEN IF sendFails THEN Return(L, "Transport", "send")
         ELSE LET ts == audioTime(L.streamStart, L.frameCount, L.frameDurationMs)
                  evt == [Type |-> "END", Confidence |-> L.bd.lastConfidence,
                          Timestamp |-> ts]
              IN Return([L EXCEPT !.sent = Append(@, evt), !.sentFrom = Append(@, -1)],
                        "OK", "")
    ELSE Return(L, "OK", "")

\* Recv returned io.EOF: flush a pending speech end, then return nil.
eofFlush(L, sendFails) ==
    IF L.bd # Nil /\ L.bd.inSpeech
    THEN IF sendFails THEN Return(L, "Transport", "send")
         ELSE LET ts == audioTime(L.streamStart, L.frameCount, L.frameDurationMs)
                  evt == [Type |-> "END", Confidence |-> L.bd.lastConfidence,
                          Timestamp |-> ts]
              IN Return([L EXCEPT !.sent = Append(@, evt), !.sentFrom = Append(@, -1)],
                        "OK", "")
    ELSE Return(L, "OK", "")

(***************************************************************************)
(* Inputs.                                                                 *)
(***************************************************************************)
\* The process configuration the Server is built with (threshold 0.5,
\* min speech 20 ms, min silence 40 ms).
ProcessConfigs == { Config(50, 20, 40) }

Factories == {"stub", "silero", "zerofd"}

\* What s.newEngine() can return: the Silero factory returns nil when
\* NewNativeEngine fails.
FactoryOutcomes(kind, c) ==
    IF kind = "stub" THEN {NewStubEngine}
    ELSE IF kind = "silero" THEN {NewSileroEngine(c.Threshold), Nil}
    ELSE {NewZeroFrameEngine}

F16k == AudioFormat(16000, "", 0, 0)

Formats ==
    { Nil,
      AudioFormat(0, "", 0, 0),
      F16k,
      AudioFormat(16000, "pcm_s16le", 1, 16),
      AudioFormat(8000, "", 0, 0),
      AudioFormat(0, "pcm_f32le", 0, 0),
      AudioFormat(16000, "", 2, 0),
      AudioFormat(16000, "", 0, 8) }

PcmLens == {0, 3, 512, 1024, 3072, MaxPCMChunkBytes + 2}

ConfigJSONs ==
    { CJEmpty, CJBlank, CJMalformed,
      CJObject(None, None, None, Some(100)),
      CJObject(Some(40), None, None, None),
      CJObject(None, None, Some(20), None),
      CJObject(Some(150), None, None, None),
      CJObject(None, Some(40), None, None),
      CJObject(None, Some(0), None, None),
      CJObject(None, None, Some(60001), None) }

Msg(f, len, cj) == [format |-> f, pcmLen |-> len, configJSON |-> cj]

\* Messages a client sends: every format, length and config_json occurs, with
\* and without PCM.
Msgs ==
    { Msg(f, len, CJEmpty) : f \in Formats, len \in {0, 1024} }
    \cup { Msg(f, len, CJEmpty) : f \in {Nil, F16k}, len \in PcmLens }
    \cup { Msg(Nil, 0, cj) : cj \in ConfigJSONs }
    \cup { Msg(F16k, 1024, cj) : cj \in ConfigJSONs }

\* Probabilities a Silero inference can report.
Probs == {40, 90}

ProbSeqs(n) == [1..n -> Probs]

\* Readings of time.Now().
Times == 1..MaxTime

\* Results the engine would return for pcmLen more bytes.
FramesOf(e, pcmLen) == (e.pcmBuf + pcmLen \div 2) \div WindowSamples(e)

\* What the engine and the transport do during one ProcessChunk iteration
\* that yields n windows: either inference fails at some window, or every
\* window reports a probability and at most one Send fails.
Outcomes(e, n) ==
    IF e.kind = "silero"
    THEN { [probs |-> p, inferFail |-> 0, sendFail |-> k] : p \in ProbSeqs(n), k \in 0..n }
         \cup { [probs |-> [i \in 1..n |-> 40], inferFail |-> w, sendFail |-> 0] : w \in 1..n }
    ELSE { [probs |-> << >>, inferFail |-> 0, sendFail |-> k] : k \in 0..n }

\* Messages whose chunk is exactly MaxPCMChunkBytes long, or one byte longer.
MaxChunkMsgs ==
    { Msg(f, len, CJEmpty) : f \in {Nil, F16k},
                             len \in {MaxPCMChunkBytes, MaxPCMChunkBytes + 1} }

\* A chunk of MaxPCMChunkBytes is followed up to the engine's first inference
\* only: the one outcome explored is that this inference fails.
LongOutcomes(e) ==
    IF e.kind = "silero"
    THEN { [probs |-> << >>, inferFail |-> 1, sendFail |-> 0] }
    ELSE { }

(***************************************************************************)
(* main: startup from the moment the gRPC server is serving with the lazy  *)
(* wrapper registered and both health statuses NOT_SERVING, to the moment  *)
(* the adapter is ready; DetectSpeech invocations arrive meanwhile.        *)
(***************************************************************************)
serviceName == "nap.v1.VoiceActivityDetectionService"
NoExit == -1
Clients == 1..MaxStreams

MainEnvs ==
    [ Engine : {"stub", "silero", "auto"}, NativeAvailable : BOOLEAN,
      probeFails : BOOLEAN, devMode : BOOLEAN ]

MainIdle ==
    /\ mainPc = "idle"
    /\ mainEnv = Nil
    /\ mainLocals = Nil
    /\ lazyService = Nil
    /\ healthServer = Nil
    /\ exitCode = NoExit
    /\ streams = << >>
    /\ shutdown = Nil
    /\ loader = Nil

\* engine.NewNativeEngine: an error without the silero build tag, else the
\* outcome of NewSileroEngine.
NewNativeEngineFails(env) == ~env.NativeAvailable \/ env.probeFails

\* STEP 4, first part: "auto" becomes silero or stub by what is compiled in.
resolveAuto(env) ==
    LET auto == env.Engine = "auto" IN
    [resolvedEngine |-> IF auto THEN (IF env.NativeAvailable THEN "silero" ELSE "stub")
                        ELSE env.Engine,
     isAutoMode |-> auto, newEngine |-> Nil]

\* selectEngine falling back to the stub in dev mode for an explicit
\* "silero" as well.
selectEngineDevFallback(env, l) ==
    IF l.resolvedEngine = "silero"
    THEN IF ~env.NativeAvailable THEN [exit |-> 1, l |-> l]
         ELSE IF NewNativeEngineFails(env)
         THEN IF env.devMode
              THEN [exit |-> NoExit,
                    l |-> [l EXCEPT !.resolvedEngine = "stub", !.newEngine = "stub"]]
              ELSE [exit |-> 1, l |-> l]
         ELSE [exit |-> NoExit, l |-> [l EXCEPT !.newEngine = "silero"]]
    ELSE [exit |-> NoExit, l |-> [l EXCEPT !.newEngine = "stub"]]

\* STEP 4, the switch: the factory main ends with, or the exit code.
selectEngine(env, l) ==
    IF l.resolvedEngine = "silero"
    THEN IF ~env.NativeAvailable THEN [exit |-> 1, l |-> l]
         ELSE IF NewNativeEngineFails(env)
         THEN IF l.isAutoMode /\ env.devMode
              THEN [exit |-> NoExit,
                    l |-> [l EXCEPT !.resolvedEngine = "stub", !.newEngine = "stub"]]
              ELSE [exit |-> 1, l |-> l]
         ELSE [exit |-> NoExit, l |-> [l EXCEPT !.newEngine = "silero"]]
    ELSE [exit |-> NoExit, l |-> [l EXCEPT !.newEngine = "stub"]]

(***************************************************************************)
(* The engine bench: one engine, called directly.  The audio is a stretch  *)
(* of loud samples [on, off) in silence, and the buffer, being appended to *)
(* at the end and sliced from the front, holds the samples                 *)
(* [fed - pcmBuf, fed).  The ONNX network is outside the repository: infer *)
(* stands for it as one fixed function of the state tensor and the window. *)
(* A second engine, ref, is given the same samples in other chunks: every  *)
(* chunk in two pieces.                                                    *)
(***************************************************************************)
Audios == { [on |-> 0, off |-> 600], [on |-> 400, off |-> 20000] }

min(a, b) == IF a <= b THEN a ELSE b

\* Loud samples among the n samples from position from.
Loud(a, from, n) == max(0, min(a.off, from + n) - max(a.on, from))

\* SileroEngine.infer on a window holding so many loud samples: the
\* probability read from outputTensor and the state copied from stateNTensor.
infer(st, loud) ==
    IF 2 * loud >= sileroWindowSize THEN [prob |-> 90, state |-> 1]
    ELSE IF st = 1 THEN [prob |-> 60, state |-> 0]
    ELSE [prob |-> 40, state |-> 0]

\* k successive inferences over the windows starting at position from.
RECURSIVE inferRun(_, _, _, _)
inferRun(st, a, from, k) ==
    IF k = 0 THEN << >>
    ELSE LET o == infer(st, Loud(a, from, sileroWindowSize)) IN
         << o >> \o inferRun(o.state, a, from + sileroWindowSize, k - 1)

BenchLens == {0, 3, 640, 1024, 32000}
BenchRates == {ExpectedSampleRate, 8000}
BenchThresholds == {50, 70}
BenchEngines == {NewStubEngine} \cup { NewSileroEngine(th) : th \in BenchThresholds }

\* One ProcessChunk call on engine e with state tensor st, whose buffer ends
\* at position pos of audio a; inferFail is the window at which the session
\* fails (0: none).
BenchCall(e, st, a, pos, pcmLen, sr, inferFail) ==
    LET nWin == (e.pcmBuf + pcmLen \div 2) \div sileroWindowSize + 1
        run == inferRun(st, a, pos - e.pcmBuf, nWin)
        r == ProcessChunk(e, pcmLen, sr, [i \in 1..nWin |-> run[i].prob], inferFail)
        done == IF r.err = "infer" THEN inferFail - 1 ELSE Len(r.results)
    IN [eng |-> r.eng, results |-> r.results, err |-> r.err,
        state |-> IF e.kind = "silero" /\ done > 0 THEN run[done].state ELSE st]

\* Byte offsets at which a chunk is cut in two for the second engine.
BenchCuts == {0, 2, 640}

\* The second engine given the chunk as pcm[:cut] and pcm[cut:].
RefCall(pcmLen, sr, cut) ==
    LET a == BenchCall(ref, refTensor, audio, fed, cut, sr, 0)
        b == BenchCall(a.eng, a.state, audio, fed + cut \div 2, pcmLen - cut, sr, 0)
    IN [eng |-> b.eng, state |-> b.state, results |-> a.results \o b.results]

BenchIdle ==
    /\ stateTensor = 0
    /\ audio = [on |-> 0, off |-> 0]
    /\ fed = 0
    /\ allResults = << >>
    /\ engCall = Nil
    /\ ref = Nil
    /\ refTensor = 0
    /\ refResults = << >>
    /\ benchLog = [calls |-> 0, resets |-> 0, failed |-> FALSE, tuned |-> FALSE,
                  closes |-> 0, destroyed |-> 0]
    /\ ort = Nil
    /\ iso = Nil

\* The stream variables, at rest while the bench runs.
StreamIdle ==
    /\ cfg = Config(50, 20, 40)
    /\ newEngine = "stub"
    /\ pc = "done"
    /\ status = NoStatus
    /\ streamCfg = cfg
    /\ engineReady = FALSE
    /\ formatKnown = FALSE
    /\ bd = Nil
    /\ cachedFormat = Nil
    /\ sampleRate = 0
    /\ frameDurationMs = 0
    /\ streamStart = ZeroTime
    /\ frameCount = 0
    /\ sent = << >>
    /\ factoryCalls = 0
    /\ closeCalls = 0
    /\ chunkAfterClose = FALSE
    /\ resultsTotal = 0
    /\ lastCall = Nil
    /\ sentFrom = << >>
    /\ factoryMsg = Nil
    /\ lastRecv = "none"
    /\ lastMsg = Nil
    /\ callFirst = 0
    /\ chunkCall = Nil

streamVars == << cfg, newEngine, pc, status, streamCfg, engineReady, formatKnown, bd,
                 cachedFormat, sampleRate, frameDurationMs, streamStart, frameCount,
                 sent, factoryCalls, closeCalls, chunkAfterClose, resultsTotal,
                 lastCall, sentFrom, factoryMsg, lastRecv, lastMsg, callFirst,
                 chunkCall >>

\* NewStubEngine() or NewSileroEngine(threshold), and the audio to come.
InitEngine ==
    /\ StreamIdle
    /\ MainIdle
    /\ eng \in BenchEngines
    /\ stateTensor = 0
    /\ audio \in Audios
    /\ fed = 0
    /\ allResults = << >>
    /\ engCall = Nil
    /\ ref = eng
    /\ refTensor = 0
    /\ refResults = << >>
    /\ benchLog = [calls |-> 0, resets |-> 0, failed |-> FALSE, tuned |-> FALSE,
                  closes |-> 0, destroyed |-> 0]
    /\ ort = Nil
    /\ iso = Nil

\* eng.ProcessChunk(pcm, sampleRate) on the next len(pcm)/2 samples.
CallProcessChunk ==
    /\ ~eng.closed
    /\ benchLog.calls < MaxCalls
    /\ \E pcmLen \in BenchLens, sr \in BenchRates,
          inferFail \in (IF eng.kind = "silero" THEN {0, 1} ELSE {0}) :
         LET r == BenchCall(eng, stateTensor, audio, fed, pcmLen, sr, inferFail) IN
         /\ eng' = r.eng
         /\ stateTensor' = r.state
         /\ fed' = IF r.err \in {"", "infer"} THEN fed + pcmLen \div 2 ELSE fed
         /\ allResults' = allResults \o r.results
         /\ engCall' = [op |-> "ProcessChunk", pcmLen |-> pcmLen, sr |-> sr,
                        results |-> r.results, err |-> r.err]
         /\ benchLog' = [benchLog EXCEPT !.calls = @ + 1,
                                         !.failed = @ \/ r.err = "infer"]
         /\ IF r.err \in {"", "infer"}
            THEN \E cut \in BenchCuts :
                   /\ cut <= pcmLen
                   /\ LET t == RefCall(pcmLen, sr, cut) IN
                      /\ ref' = t.eng
                      /\ refTensor' = t.state
                      /\ refResults' = refResults \o t.results
            ELSE UNCHANGED << ref, refTensor, refResults >>
    /\ UNCHANGED audio
    /\ UNCHANGED << ort, iso, streamVars, mainVars >>

\* eng.Reset(); what is fed afterwards is any audio.
CallReset ==
    /\ ~eng.closed
    /\ benchLog.resets < MaxResets
    /\ benchLog.calls >= 1
    /\ eng' = Reset(eng)
    /\ stateTensor' = ResetState(eng, stateTensor)
    /\ audio' \in Audios
    /\ fed' = 0
    /\ allResults' = << >>
    /\ engCall' = [op |-> "Reset", pcmLen |-> 0, sr |-> 0, results |-> << >>, err |-> ""]
    /\ ref' = Engine(eng.kind, eng.threshold)
    /\ refTensor' = 0
    /\ refResults' = << >>
    /\ benchLog' = [benchLog EXCEPT !.resets = @ + 1, !.failed = FALSE, !.tuned = FALSE]
    /\ UNCHANGED << ort, iso, streamVars, mainVars >>

\* eng.SetThreshold(th).
CallSetThreshold ==
    /\ ~eng.closed
    /\ \E th \in BenchThresholds :
         /\ th # eng.threshold
         /\ eng' = SetThreshold(eng, th)
         /\ ref' = SetThreshold(ref, th)
    /\ engCall' = [op |-> "SetThreshold", pcmLen |-> 0, sr |-> 0, results |-> << >>,
                   err |-> ""]
    /\ benchLog' = [benchLog EXCEPT !.tuned = TRUE]
    /\ UNCHANGED << stateTensor, audio, fed, allResults, refTensor, refResults >>
    /\ UNCHANGED << ort, iso, streamVars, mainVars >>

\* eng.Close(), the first or a later one; a closed engine is not used again.
CallClose ==
    /\ benchLog.closes < MaxCloses
    /\ LET r == Close(eng) IN
       /\ eng' = r.eng
       /\ engCall' = [op |-> "Close", pcmLen |-> 0, sr |-> 0, results |-> << >>,
                      err |-> r.err]
       /\ benchLog' = [benchLog EXCEPT !.closes = @ + 1,
                                       !.destroyed = @ + r.destroyed]
    /\ UNCHANGED << stateTensor, audio, fed, allResults, ref, refTensor, refResults >>
    /\ UNCHANGED << ort, iso, streamVars, mainVars >>

NextEngine == CallProcessChunk \/ CallReset \/ CallSetThreshold \/ CallClose

SpecEngine == InitEngine /\ [][NextEngine]_vars

\* main after STEP 3: the listener is bound, the server is serving.
\* Before STEP 6: no interrupt yet, no shutdown goroutine, grpcServer serving.
NoShutdown ==
    [ ctxDone |-> FALSE,      \* ctx.Done() is closed
      pc |-> "none",          \* the shutdown goroutine
      graceful |-> "none",    \* the goroutine calling grpcServer.GracefulStop()
      timer |-> "none",       \* time.After(5 * time.Second)
      grpc |-> "serving",     \* grpcServer
      forced |-> FALSE,       \* grpcServer.Stop() was called
      finished |-> {} ]       \* clients whose delegated stream returned

\* The process is alive: no os.Exit and main has not returned.
Running == exitCode = NoExit /\ mainPc # "stopped"

\* Streams delegated to the real service that have not returned.
OpenStreams == { c \in Clients : streams[c] = "delegated" /\ c \notin shutdown.finished }

InitMain ==
    /\ StreamIdle
    /\ eng = Nil
    /\ BenchIdle
    /\ mainPc = "resolve"
    /\ mainEnv \in MainEnvs
    /\ mainLocals = [resolvedEngine |-> "", isAutoMode |-> FALSE, newEngine |-> Nil]
    /\ lazyService = Nil
    /\ healthServer = [n \in {"", serviceName} |-> "NOT_SERVING"]
    /\ exitCode = NoExit
    /\ streams = [c \in Clients |-> "none"]
    /\ shutdown = NoShutdown
    /\ loader = Nil

Resolve ==
    /\ mainPc = "resolve"
    /\ mainLocals' = resolveAuto(mainEnv)
    /\ mainPc' = "switch"
    /\ UNCHANGED << mainEnv, lazyService, healthServer, exitCode, streams >>
    /\ UNCHANGED << shutdown, loader, streamVars, eng, benchVars >>

SelectEngine ==
    /\ mainPc = "switch"
    /\ LET r == selectEngine(mainEnv, mainLocals) IN
       /\ mainLocals' = r.l
       /\ exitCode' = r.exit
       /\ mainPc' = IF r.exit = NoExit THEN "setServer" ELSE "exited"
    /\ UNCHANGED << mainEnv, lazyService, healthServer, streams >>
    /\ UNCHANGED << shutdown, loader, streamVars, eng, benchVars >>

\* STEP 5 installing the service and setting both health statuses at once.
SetServerAndHealth ==
    /\ mainPc = "setServer"
    /\ lazyService' = [newEngine |-> mainLocals.newEngine]
    /\ healthServer' = [n \in {"", serviceName} |-> "SERVING"]
    /\ mainPc' = "ready"
    /\ UNCHANGED << mainEnv, mainLocals, exitCode, streams >>
    /\ UNCHANGED << shutdown, loader, streamVars, eng, benchVars >>

\* STEP 5 reporting SERVING for the service before installing it.
SetServingBeforeServer ==
    /\ mainPc = "setServer"
    /\ healthServer' = [healthServer EXCEPT ![serviceName] = "SERVING"]
    /\ mainPc' = "healthOverall"
    /\ UNCHANGED << mainEnv, mainLocals, lazyService, exitCode, streams >>
    /\ UNCHANGED << shutdown, loader, streamVars, eng, benchVars >>

\* STEP 5: server.New and lazyService.setServer.
SetServer ==
    /\ mainPc = "setServer"
    /\ lazyService' = [newEngine |-> mainLocals.newEngine]
    /\ mainPc' = "healthOverall"
    /\ UNCHANGED << mainEnv, mainLocals, healthServer, exitCode, streams >>
    /\ UNCHANGED << shutdown, loader, streamVars, eng, benchVars >>

\* healthServer.SetServingStatus("", SERVING).
SetServingOverall ==
    /\ mainPc = "healthOverall"
    /\ healthServer' = [healthServer EXCEPT ![""] = "SERVING"]
    /\ mainPc' = "healthService"
    /\ UNCHANGED << mainEnv, mainLocals, lazyService, exitCode, streams >>
    /\ UNCHANGED << shutdown, loader, streamVars, eng, benchVars >>

\* healthServer.SetServingStatus(serviceName, SERVING).
SetServingService ==
    /\ mainPc = "healthService"
    /\ healthServer' = [healthServer EXCEPT ![serviceName] = "SERVING"]
    /\ mainPc' = "ready"
    /\ UNCHANGED << mainEnv, mainLocals, lazyService, exitCode, streams >>
    /\ UNCHANGED << shutdown, loader, streamVars, eng, benchVars >>

\* DetectSpeech answering by the health status instead of the pointer.
LazyDetectSpeechByHealth ==
    /\ Running
    /\ shutdown.grpc = "serving"
    /\ \E c \in Clients :
         /\ streams[c] = "none"
         /\ streams' = [streams EXCEPT ![c] = IF healthServer[serviceName] # "SERVING"
                                              THEN "Unavailable" ELSE "delegated"]
    /\ UNCHANGED << mainPc, mainEnv, mainLocals, lazyService, healthServer, exitCode >>
    /\ UNCHANGED << shutdown, loader, streamVars, eng, benchVars >>

\* lazyVADServer.DetectSpeech for client c, on the server's goroutine.
LazyDetectSpeech ==
    /\ Running
    /\ shutdown.grpc = "serving"
    /\ \E c \in Clients :
         /\ streams[c] = "none"
         /\ streams' = [streams EXCEPT ![c] = IF lazyService = Nil THEN "Unavailable"
                                              ELSE "delegated"]
    /\ UNCHANGED << mainPc, mainEnv, mainLocals, lazyService, healthServer, exitCode >>
    /\ UNCHANGED << shutdown, loader, streamVars, eng, benchVars >>

\* STEP 6: go func() { <-ctx.Done() ... }(), then main waits in STEP 7.
GoShutdown ==
    /\ mainPc = "ready"
    /\ mainPc' = "wait"
    /\ shutdown' = [shutdown EXCEPT !.pc = "waitCtx"]
    /\ UNCHANGED << mainEnv, mainLocals, lazyService, healthServer, exitCode, streams >>
    /\ UNCHANGED << loader, streamVars, eng, benchVars >>

\* SIGINT or SIGTERM: signal.NotifyContext closes ctx.Done().
Interrupt ==
    /\ Running
    /\ ~shutdown.ctxDone
    /\ shutdown' = [shutdown EXCEPT !.ctxDone = TRUE]
    /\ UNCHANGED << mainPc, mainEnv, mainLocals, lazyService, healthServer, exitCode,
                    streams >>
    /\ UNCHANGED << loader, streamVars, eng, benchVars >>

\* <-ctx.Done(); healthServer.SetServingStatus(serviceName, NOT_SERVING).
ShutdownNotServingService ==
    /\ Running
    /\ shutdown.pc = "waitCtx"
    /\ shutdown.ctxDone
    /\ healthServer' = [healthServer EXCEPT ![serviceName] = "NOT_SERVING"]
    /\ shutdown' = [shutdown EXCEPT !.pc = "notServingOverall"]
    /\ UNCHANGED << mainPc, mainEnv, mainLocals, lazyService, exitCode, streams >>
    /\ UNCHANGED << loader, streamVars, eng, benchVars >>

\* healthServer.SetServingStatus("", NOT_SERVING).
ShutdownNotServingOverall ==
    /\ Running
    /\ shutdown.pc = "notServingOverall"
    /\ healthServer' = [healthServer EXCEPT ![""] = "NOT_SERVING"]
    /\ shutdown' = [shutdown EXCEPT !.pc = "goGraceful"]
    /\ UNCHANGED << mainPc, mainEnv, mainLocals, lazyService, exitCode, streams >>
    /\ UNCHANGED << loader, streamVars, eng, benchVars >>

\* go func() { grpcServer.GracefulStop(); close(stopped) }(), then the select
\* with time.After(5 * time.Second) is entered.
ShutdownGoGraceful ==
    /\ Running
    /\ shutdown.pc = "goGraceful"
    /\ shutdown' = [shutdown EXCEPT !.pc = "select", !.graceful = "spawned",
                                    !.timer = "running"]
    /\ UNCHANGED << mainPc, mainEnv, mainLocals, lazyService, healthServer, exitCode,
                    streams >>
    /\ UNCHANGED << loader, streamVars, eng, benchVars >>

\* grpcServer.GracefulStop() begins: no new streams are accepted.
GracefulStopBegins ==
    /\ Running
    /\ shutdown.graceful = "spawned"
    /\ shutdown' = [shutdown EXCEPT !.graceful = "draining",
                                    !.grpc = IF @ = "serving" THEN "draining" ELSE @]
    /\ UNCHANGED << mainPc, mainEnv, mainLocals, lazyService, healthServer, exitCode,
                    streams >>
    /\ UNCHANGED << loader, streamVars, eng, benchVars >>

\* grpcServer.GracefulStop() returns once no stream is open or the server was
\* stopped; close(stopped).
GracefulStopReturns ==
    /\ Running
    /\ shutdown.graceful = "draining"
    /\ OpenStreams = {} \/ shutdown.grpc = "stopped"
    /\ shutdown' = [shutdown EXCEPT !.graceful = "closed", !.grpc = "stopped"]
    /\ UNCHANGED << mainPc, mainEnv, mainLocals, lazyService, healthServer, exitCode,
                    streams >>
    /\ UNCHANGED << loader, streamVars, eng, benchVars >>

\* Five seconds pass: the channel of time.After delivers.
TimerFires ==
    /\ Running
    /\ shutdown.timer = "running"
    /\ shutdown' = [shutdown EXCEPT !.timer = "fired"]
    /\ UNCHANGED << mainPc, mainEnv, mainLocals, lazyService, healthServer, exitCode,
                    streams >>
    /\ UNCHANGED << loader, streamVars, eng, benchVars >>

\* case <-stopped: close(shutdownDone).
ShutdownDrained ==
    /\ Running
    /\ shutdown.pc = "select"
    /\ shutdown.graceful = "closed"
    /\ shutdown' = [shutdown EXCEPT !.pc = "done"]
    /\ UNCHANGED << mainPc, mainEnv, mainLocals, lazyService, healthServer, exitCode,
                    streams >>
    /\ UNCHANGED << loader, streamVars, eng, benchVars >>

\* A shutdown goroutine whose select has no timeout case.
ShutdownNeverForced ==
    /\ Running
    /\ shutdown.pc = "select"
    /\ shutdown.timer = "fired"
    /\ shutdown.graceful = "closed"
    /\ shutdown' = [shutdown EXCEPT !.pc = "done"]
    /\ UNCHANGED << mainPc, mainEnv, mainLocals, lazyService, healthServer, exitCode,
                    streams >>
    /\ UNCHANGED << loader, streamVars, eng, benchVars >>

\* case <-time.After(5s): grpcServer.Stop(); close(shutdownDone).
ShutdownForced ==
    /\ Running
    /\ shutdown.pc = "select"
    /\ shutdown.timer = "fired"
    /\ shutdown' = [shutdown EXCEPT !.pc = "done", !.grpc = "stopped", !.forced = TRUE]
    /\ UNCHANGED << mainPc, mainEnv, mainLocals, lazyService, healthServer, exitCode,
                    streams >>
    /\ UNCHANGED << loader, streamVars, eng, benchVars >>

\* STEP 7: case <-shutdownDone, "adapter stopped", main returns.
MainStopped ==
    /\ mainPc = "wait"
    /\ shutdown.pc = "done"
    /\ mainPc' = "stopped"
    /\ UNCHANGED << mainEnv, mainLocals, lazyService, healthServer, exitCode, streams,
                    shutdown >>
    /\ UNCHANGED << loader, streamVars, eng, benchVars >>

\* The delegated DetectSpeech of a client returns.
StreamReturns ==
    /\ Running
    /\ shutdown.grpc # "stopped"
    /\ \E c \in OpenStreams :
         shutdown' = [shutdown EXCEPT !.finished = @ \cup {c}]
    /\ UNCHANGED << mainPc, mainEnv, mainLocals, lazyService, healthServer, exitCode,
                    streams >>
    /\ UNCHANGED << loader, streamVars, eng, benchVars >>

\* The steps of the main goroutine.
MainGoroutine ==
    \/ Resolve \/ SelectEngine \/ SetServer \/ SetServingOverall \/ SetServingService
    \/ GoShutdown \/ MainStopped

\* The steps of the shutdown goroutine.
ShutdownGoroutine ==
    \/ ShutdownNotServingService \/ ShutdownNotServingOverall \/ ShutdownGoGraceful
    \/ ShutdownDrained \/ ShutdownForced

\* The steps of the goroutine that calls GracefulStop.
GracefulGoroutine == GracefulStopBegins \/ GracefulStopReturns

NextMain ==
    \/ MainGoroutine \/ ShutdownGoroutine \/ GracefulGoroutine
    \/ TimerFires \/ Interrupt \/ LazyDetectSpeech \/ StreamReturns

SpecMain == InitMain /\ [][NextMain]_vars

\* The Go scheduler runs every runnable goroutine eventually and the timer
\* delivers after its five seconds; clients and signals are under no
\* obligation.  Every step of the main goroutine changes mainPc and every
\* step of the others changes shutdown.
SpecShutdown ==
    /\ InitMain
    /\ [][NextMain]_vars
    /\ WF_mainPc(MainGoroutine)
    /\ WF_shutdown(ShutdownGoroutine)
    /\ WF_shutdown(GracefulGoroutine)
    /\ WF_shutdown(TimerFires)

(***************************************************************************)
(* ONNX Runtime initialisation: goroutines (one per stream, through the    *)
(* factory) call NewSileroEngine concurrently.  Errors are sequences of    *)
(* strings, the outermost message first; << >> is nil.                     *)
(***************************************************************************)
Callers == 1..MaxCallers

\* fmt.Errorf(prefix + ": %w", err)
Wrap(prefix, err) == << prefix >> \o err

\* What the function given to ortInitOnce.Do leaves in ortInitErr: nil, a
\* failure of resolveORTLibPath or a failure of ort.InitializeEnvironment.
OrtInitOutcomes ==
    { << >>, Wrap("resolve ORT lib", << "not found" >>), << "InitializeEnvironment" >> }

\* Outcomes of allocating the tensors and the session.
OrtAllocOutcomes == { << >>, Wrap("silero: create session", << "ort" >>) }

InitOrt ==
    /\ StreamIdle
    /\ eng = Nil
    /\ MainIdle
    /\ stateTensor = 0
    /\ audio = [on |-> 0, off |-> 0]
    /\ fed = 0
    /\ allResults = << >>
    /\ engCall = Nil
    /\ ref = Nil
    /\ refTensor = 0
    /\ refResults = << >>
    /\ benchLog = [calls |-> 0, resets |-> 0, failed |-> FALSE, tuned |-> FALSE,
                  closes |-> 0, destroyed |-> 0]
    /\ iso = Nil
    /\ ort = [ done |-> FALSE,          \* ortInitOnce has completed
               running |-> 0,           \* the caller inside ortInitOnce.Do's function
               ortInitErr |-> << >>,
               attempts |-> 0,          \* history: runs of the function
               allocs |-> 0,            \* history: constructions that allocated tensors
               pc |-> [c \in Callers |-> "idle"],
               results |-> [c \in Callers |-> << >>] ]

ortRest == << stateTensor, audio, fed, allResults, engCall, ref, refTensor,
              refResults, benchLog, iso >>

\* A goroutine calls NewSileroEngine; the model data is not empty.
CallNewSileroEngine(c) ==
    /\ ort.pc[c] = "idle"
    /\ Len(ort.results[c]) < MaxConstructions
    /\ ort' = [ort EXCEPT !.pc[c] = "once"]
    /\ UNCHANGED << ortRest, streamVars, eng, mainVars >>

\* An ortInitOnce.Do that runs its function on every call.
OnceDoAlways(c) ==
    /\ ort.pc[c] = "once"
    /\ ort.running = 0
    /\ ort' = [ort EXCEPT !.running = c, !.pc[c] = "init"]
    /\ UNCHANGED << ortRest, streamVars, eng, mainVars >>

\* ortInitOnce.Do(f): returns at once when f has completed, runs f when no
\* call has started it, and otherwise blocks until f completes.
OnceDo(c) ==
    /\ ort.pc[c] = "once"
    /\ IF ort.done THEN ort' = [ort EXCEPT !.pc[c] = "check"]
       ELSE /\ ort.running = 0
            /\ ort' = [ort EXCEPT !.running = c, !.pc[c] = "init"]
    /\ UNCHANGED << ortRest, streamVars, eng, mainVars >>

\* The function given to Do: resolveORTLibPath, SetSharedLibraryPath,
\* InitializeEnvironment; ortInitErr is assigned.
OrtInit(c) ==
    /\ ort.pc[c] = "init"
    /\ \E e \in OrtInitOutcomes :
         ort' = [ort EXCEPT !.ortInitErr = e, !.attempts = @ + 1, !.pc[c] = "initDone"]
    /\ UNCHANGED << ortRest, streamVars, eng, mainVars >>

\* The function returns: the Once is done and Do returns to its caller.
OnceDone(c) ==
    /\ ort.pc[c] = "initDone"
    /\ ort' = [ort EXCEPT !.done = TRUE, !.running = 0, !.pc[c] = "check"]
    /\ UNCHANGED << ortRest, streamVars, eng, mainVars >>

\* if ortInitErr != nil { return nil, "silero: %w" }, else the tensors and
\* the session are allocated and the engine or an allocation error returned.
OrtCheck(c) ==
    /\ ort.pc[c] = "check"
    /\ IF ort.ortInitErr # << >>
       THEN ort' = [ort EXCEPT !.pc[c] = "idle",
                               !.results[c] = Append(@, [err |-> Wrap("silero", ort.ortInitErr),
                                                         allocated |-> FALSE])]
       ELSE \E a \in OrtAllocOutcomes :
              ort' = [ort EXCEPT !.pc[c] = "idle", !.allocs = @ + 1,
                                 !.results[c] = Append(@, [err |-> a, allocated |-> TRUE])]
    /\ UNCHANGED << ortRest, streamVars, eng, mainVars >>

NextOrt ==
    \E c \in Callers :
        \/ CallNewSileroEngine(c) \/ OnceDo(c) \/ OrtInit(c) \/ OnceDone(c) \/ OrtCheck(c)

SpecOrt == InitOrt /\ [][NextOrt]_vars

(***************************************************************************)
(* Process configuration: Loader.Load over the environment, then one       *)
(* stream's config_json applied to the loaded defaults.  An environment    *)
(* variable is unset, blank, a number or text that is no number; the value *)
(* of NUPI_ADAPTER_CONFIG is modelled as a config_json is.                 *)
(***************************************************************************)
DefaultListenAddr == "localhost:0"
DefaultThreshold == 50
DefaultMinSpeechDurationMs == 250
DefaultMinSilenceDurationMs == 300

EnvUnset == [kind |-> "unset", val |-> 0]
EnvBlank == [kind |-> "blank", val |-> 0]
EnvNumber(n) == [kind |-> "number", val |-> n]
EnvGarbage == [kind |-> "garbage", val |-> 0]

WarnPadEnv == "NUPI_VAD_SPEECH_PAD_MS is not supported and will be ignored"
WarnPadJSON == "speech_pad_ms in NUPI_ADAPTER_CONFIG is not supported and will be ignored"

\* Config.Validate: "" when the configuration is acceptable.
Validate(c) ==
    IF c.ListenAddr = "" THEN "config: listen address is required"
    ELSE IF c.Threshold <= 0 \/ c.Threshold > 100 THEN "config: threshold"
    ELSE IF c.MinSpeechDurationMs <= 0 THEN "config: min_speech_duration_ms"
    ELSE IF c.MinSilenceDurationMs <= 0 THEN "config: min_silence_duration_ms"
    ELSE ""

\* An applyJSON that fails on speech_pad_ms.
applyJSONRejectPad(raw, c) ==
    IF raw.kind = "malformed"
    THEN [err |-> "config: decode NUPI_ADAPTER_CONFIG", cfg |-> c, warnings |-> << >>]
    ELSE IF raw.SpeechPadMs # None
    THEN [err |-> "config: speech_pad_ms is not supported", cfg |-> c, warnings |-> << >>]
    ELSE LET c1 == IF raw.Threshold # None
                   THEN [c EXCEPT !.Threshold = raw.Threshold[1]] ELSE c
             c2 == IF raw.MinSpeechDurationMs # None
                   THEN [c1 EXCEPT !.MinSpeechDurationMs = raw.MinSpeechDurationMs[1]]
                   ELSE c1
             c3 == IF raw.MinSilenceDurationMs # None
                   THEN [c2 EXCEPT !.MinSilenceDurationMs = raw.MinSilenceDurationMs[1]]
                   ELSE c2
         IN [err |-> "", cfg |-> c3, warnings |-> << >>]

\* applyJSON(raw, &cfg): the error, the config and the warnings.
applyJSON(raw, c) ==
    IF raw.kind = "malformed"
    THEN [err |-> "config: decode NUPI_ADAPTER_CONFIG", cfg |-> c, warnings |-> << >>]
    ELSE LET c1 == IF raw.Threshold # None
                   THEN [c EXCEPT !.Threshold = raw.Threshold[1]] ELSE c
             c2 == IF raw.MinSpeechDurationMs # None
                   THEN [c1 EXCEPT !.MinSpeechDurationMs = raw.MinSpeechDurationMs[1]]
                   ELSE c1
             c3 == IF raw.MinSilenceDurationMs # None
                   THEN [c2 EXCEPT !.MinSilenceDurationMs = raw.MinSilenceDurationMs[1]]
                   ELSE c2
         IN [err |-> "", cfg |-> c3,
             warnings |-> IF raw.SpeechPadMs # None THEN << WarnPadJSON >> ELSE << >>]

\* overrideFloat / overrideInt: unset and blank values leave the target.
overrideNumber(v, key, target) ==
    IF v.kind \in {"unset", "blank"} THEN [err |-> "", val |-> target]
    ELSE IF v.kind = "garbage" THEN [err |-> "config: invalid value for " \o key, val |-> target]
    ELSE [err |-> "", val |-> v.val]

\* LoadResult{} with an error.
LoadError(e) == [err |-> e, Config |-> Nil, Warnings |-> << >>]

\* Loader.Load with Lookup reading env.
Load(env) ==
    LET cfg0 == [ListenAddr |-> DefaultListenAddr, Threshold |-> DefaultThreshold,
                 MinSpeechDurationMs |-> DefaultMinSpeechDurationMs,
                 MinSilenceDurationMs |-> DefaultMinSilenceDurationMs]
        raw == env.NUPI_ADAPTER_CONFIG
        j == IF raw.kind \in {"unset", "empty", "blank"}
             THEN [err |-> "", cfg |-> cfg0, warnings |-> << >>]
             ELSE applyJSON(raw, cfg0)
        w == IF env.NUPI_VAD_SPEECH_PAD_MS.kind # "unset"
             THEN Append(j.warnings, WarnPadEnv) ELSE j.warnings
        th == overrideNumber(env.NUPI_VAD_THRESHOLD, "NUPI_VAD_THRESHOLD", j.cfg.Threshold)
        sp == overrideNumber(env.NUPI_VAD_MIN_SPEECH_DURATION_MS,
                             "NUPI_VAD_MIN_SPEECH_DURATION_MS", j.cfg.MinSpeechDurationMs)
        si == overrideNumber(env.NUPI_VAD_MIN_SILENCE_DURATION_MS,
                             "NUPI_VAD_MIN_SILENCE_DURATION_MS", j.cfg.MinSilenceDurationMs)
        c == [j.cfg EXCEPT !.Threshold = th.val, !.MinSpeechDurationMs = sp.val,
                           !.MinSilenceDurationMs = si.val]
    IN IF j.err # "" THEN LoadError(j.err)
       ELSE IF th.err # "" THEN LoadError(th.err)
       ELSE IF sp.err # "" THEN LoadError(sp.err)
       ELSE IF si.err # "" THEN LoadError(si.err)
       ELSE IF Validate(c) # "" THEN LoadError(Validate(c))
       ELSE [err |-> "", Config |-> c, Warnings |-> w]

ConfigUnset == ConfigJSON("unset", None, None, None, None)

\* Values of NUPI_ADAPTER_CONFIG.
AdapterConfigs ==
    { ConfigUnset, CJBlank, CJMalformed,
      CJObject(None, None, None, None),
      CJObject(None, None, None, Some(100)),
      CJObject(Some(70), None, None, Some(0)),
      CJObject(None, Some(0), None, Some(100)) }

Envs ==
    [ NUPI_ADAPTER_CONFIG : AdapterConfigs,
      NUPI_VAD_SPEECH_PAD_MS : {EnvUnset, EnvBlank, EnvNumber(100)},
      NUPI_VAD_THRESHOLD : {EnvUnset, EnvNumber(70), EnvGarbage},
      NUPI_VAD_MIN_SPEECH_DURATION_MS : {EnvUnset, EnvNumber(30), EnvNumber(0)},
      NUPI_VAD_MIN_SILENCE_DURATION_MS : {EnvUnset, EnvGarbage} ]

\* The VAD parameters of a loaded configuration, the stream's starting config.
VADParams(c) == Config(c.Threshold, c.MinSpeechDurationMs, c.MinSilenceDurationMs)

InitLoader ==
    /\ StreamIdle
    /\ eng = Nil
    /\ BenchIdle
    /\ mainPc = "idle"
    /\ mainEnv = Nil
    /\ mainLocals = Nil
    /\ lazyService = Nil
    /\ healthServer = Nil
    /\ exitCode = NoExit
    /\ streams = << >>
    /\ shutdown = Nil
    /\ \E e \in Envs : loader = [env |-> e, result |-> Nil, stream |-> Nil]

\* part_008 STEP 1: config.Loader{}.Load().
LoaderLoad ==
    /\ loader.result = Nil
    /\ loader' = [loader EXCEPT !.result = Load(loader.env)]
    /\ UNCHANGED << mainPc, mainEnv, mainLocals, lazyService, healthServer, exitCode,
                    streams, shutdown >>
    /\ UNCHANGED << streamVars, eng, benchVars >>

\* A stream's first PCM message: applyStreamConfig on a copy of the loaded
\* configuration, an error ending the stream with InvalidArgument.
LoaderStream ==
    /\ loader.result # Nil
    /\ loader.result.err = ""
    /\ loader.stream = Nil
    /\ \E cj \in ConfigJSONs :
         LET a == applyStreamConfig(cj, VADParams(loader.result.Config)) IN
         loader' = [loader EXCEPT !.stream =
                       [configJSON |-> cj,
                        status |-> IF a.err # ""
                                   THEN [code |-> "InvalidArgument", msg |-> a.err]
                                   ELSE NoStatus]]
    /\ UNCHANGED << mainPc, mainEnv, mainLocals, lazyService, healthServer, exitCode,
                    streams, shutdown >>
    /\ UNCHANGED << streamVars, eng, benchVars >>

NextLoader == LoaderLoad \/ LoaderStream

SpecLoader == InitLoader /\ [][NextLoader]_vars

(***************************************************************************)
(* Concurrent streams: gRPC runs one DetectSpeech per stream on the same   *)
(* Server.  What Go shares by reference is modelled by reference: configs  *)
(* live in cells (cell 0 is s.cfg, `streamCfg := s.cfg` copies it into the *)
(* stream's own cell) and engines on a heap (s.newEngine() returns a new   *)
(* object for every stream).  A stream's record keeps its other locals.    *)
(***************************************************************************)
IsoStreams == 1..2

\* The factory of the Server: Silero engines, whose Results depend on the
\* threshold and on the samples buffered in the engine.
IsoFactories == {"silero"}

\* Messages the concurrent streams receive.
IsoMsgs ==
    { Msg(F16k, 1024, CJEmpty),
      Msg(Nil, 512, CJEmpty),
      Msg(Nil, 0, CJObject(Some(40), None, None, None)) }

\* The locals of DetectSpeech as the invocation begins, streamCfg holding c.
NewLocals(c) ==
    [ pc |-> "recv", status |-> NoStatus, streamCfg |-> c, eng |-> Nil,
      engineReady |-> FALSE, formatKnown |-> FALSE, bd |-> Nil,
      cachedFormat |-> Nil, sampleRate |-> 0, frameDurationMs |-> 0,
      streamStart |-> ZeroTime, frameCount |-> 0, sent |-> << >>,
      factoryCalls |-> 0, closeCalls |-> 0, chunkAfterClose |-> FALSE,
      resultsTotal |-> 0, lastCall |-> Nil, sentFrom |-> << >>,
      factoryMsg |-> Nil, callFirst |-> 0, chunkCall |-> Nil ]

\* A `streamCfg := s.cfg` that takes a reference to s.cfg.
IsoCfgCellShared(i) == 0

\* `streamCfg := s.cfg` copies the struct: the stream's config is its own.
IsoCfgCell(i) == i

\* A factory that hands the same engine object to every stream.
IsoEngineCellShared(i) == 1

\* s.newEngine() allocates: the stream's engine is its own.
IsoEngineCell(i) == i

\* Stream i as DetectSpeech sees it: its locals, its config, its engine.
IsoView(st, i) ==
    IF st.L[i] = Nil THEN Nil
    ELSE [st.L[i] EXCEPT !.streamCfg = st.cells[st.refs[i].cfg],
                         !.eng = IF st.refs[i].eng = 0 THEN Nil
                                 ELSE st.heap[st.refs[i].eng]]

\* What one event makes of the locals V of a stream that runs alone: the
\* loop iteration on a message with the factory's engine, the clock reading
\* and the engine's and the transport's outcome; end of stream; Recv error.
IsoSolo(V, in) ==
    IF in.kind = "msg"
    THEN LET h == Handle(V, in.m, in.made, in.t) IN
         IF ~h.feed THEN h.L
         ELSE Feed(h.L, in.m, in.o.probs, in.o.inferFail, in.o.sendFail)
    ELSE IF in.kind = "EOF" THEN eofFlush(V, in.sendFails)
    ELSE Return(V, "Transport", "recv")

\* The locals, the config and the engine of stream i written back.
IsoStore(st, i, R, in) ==
    LET er == IF R.eng = Nil THEN 0
              ELSE IF st.refs[i].eng # 0 THEN st.refs[i].eng
              ELSE IsoEngineCell(i)
    IN [st EXCEPT !.L[i] = [R EXCEPT !.eng = Nil, !.streamCfg = Nil],
                  !.cells[st.refs[i].cfg] = R.streamCfg,
                  !.heap[er] = IF er = 0 THEN @ ELSE R.eng,
                  !.refs[i].eng = er,
                  !.last = [in EXCEPT !.who = i]]

InitIso ==
    /\ StreamIdle
    /\ eng = Nil
    /\ MainIdle
    /\ stateTensor = 0
    /\ audio = [on |-> 0, off |-> 0]
    /\ fed = 0
    /\ allResults = << >>
    /\ engCall = Nil
    /\ ref = Nil
    /\ refTensor = 0
    /\ refResults = << >>
    /\ benchLog = [calls |-> 0, resets |-> 0, failed |-> FALSE, tuned |-> FALSE,
                  closes |-> 0, destroyed |-> 0]
    /\ ort = Nil
    /\ \E k \in IsoFactories :
         iso = [ newEngine |-> k,
                 cells |-> [n \in {0} \cup IsoStreams |->
                               IF n = 0 THEN Config(50, 20, 40) ELSE Nil],
                 heap |-> [n \in {0} \cup IsoStreams |-> Nil],
                 refs |-> [i \in IsoStreams |-> [cfg |-> 0, eng |-> 0]],
                 L |-> [i \in IsoStreams |-> Nil],
                 last |-> Nil ]

isoRest == << stateTensor, audio, fed, allResults, engCall, ref, refTensor,
              refResults, benchLog, ort >>

\* A client opens stream i: streamCfg := s.cfg.
IsoOpen(i) ==
    /\ iso.L[i] = Nil
    /\ LET c == IsoCfgCell(i) IN
       iso' = [iso EXCEPT !.L[i] = [NewLocals(Nil) EXCEPT !.eng = Nil],
                          !.cells[c] = iso.cells[0],
                          !.refs[i].cfg = c,
                          !.last = [kind |-> "open", who |-> i]]
    /\ UNCHANGED << isoRest, streamVars, eng, mainVars >>

\* One iteration of stream i's loop on message m.
IsoRecvMsg(i) ==
    /\ iso.L[i] # Nil
    /\ iso.L[i].pc = "recv"
    /\ LET V == IsoView(iso, i) IN
       \E m \in IsoMsgs :
         \E made \in (IF V.engineReady THEN {Nil}
                      ELSE FactoryOutcomes(iso.newEngine, iso.cells[0])) :
           LET t == IF V.streamStart = ZeroTime THEN 1 ELSE V.streamStart + 1
               h == Handle(V, m, made, t)
               in0 == [kind |-> "msg", who |-> i, m |-> m, made |-> made, t |-> t,
                       o |-> Nil]
           IN IF ~h.feed THEN iso' = IsoStore(iso, i, h.L, in0)
              ELSE LET n == FramesOf(h.L.eng, m.pcmLen) IN
                   /\ h.L.frameCount + n <= MaxIsoFrames
                   /\ \E o \in Outcomes(h.L.eng, n) :
                        LET in == [in0 EXCEPT !.o = o] IN
                        iso' = IsoStore(iso, i, IsoSolo(V, in), in)
    /\ UNCHANGED << isoRest, streamVars, eng, mainVars >>

\* Stream i's Recv returns io.EOF.
IsoRecvEOF(i) ==
    /\ iso.L[i] # Nil
    /\ iso.L[i].pc = "recv"
    /\ \E sendFails \in BOOLEAN :
         LET in == [kind |-> "EOF", who |-> i, sendFails |-> sendFails] IN
         iso' = IsoStore(iso, i, IsoSolo(IsoView(iso, i), in), in)
    /\ UNCHANGED << isoRest, streamVars, eng, mainVars >>

\* Stream i's Recv returns another error.
IsoRecvError(i) ==
    /\ iso.L[i] # Nil
    /\ iso.L[i].pc = "recv"
    /\ LET in == [kind |-> "error", who |-> i] IN
       iso' = IsoStore(iso, i, IsoSolo(IsoView(iso, i), in), in)
    /\ UNCHANGED << isoRest, streamVars, eng, mainVars >>

NextIso ==
    \E i \in IsoStreams :
        \/ IsoOpen(i) \/ IsoRecvMsg(i) \/ IsoRecvEOF(i) \/ IsoRecvError(i)

SpecIso == InitIso /\ [][NextIso]_vars

(***************************************************************************)
(* The detector bench: one boundaryDetector built by newBoundaryDetector   *)
(* from a valid config and an engine's frame duration, then given Results  *)
(* one process() call at a time.  sent collects the events returned and    *)
(* lastCall records the last call.                                         *)
(***************************************************************************)
\* min_speech_duration_ms / min_silence_duration_ms values of valid configs.
DetDurations == {1, 20, 40, 64, 250, 1100, MaxDurationMs}

\* FrameDurationMs() of the stub and of the Silero engine.
DetFrameMs == { FrameDurationMs(Engine("stub", 0)), FrameDurationMs(Engine("silero", 50)) }

\* Results an engine hands to the detector.
DetResults == { Result(TRUE, 90), Result(FALSE, 40) }

detVars == << streamCfg, frameDurationMs, bd, sent, resultsTotal, lastCall >>

detRest == << cfg, newEngine, pc, status, engineReady, formatKnown, cachedFormat,
              sampleRate, streamStart, frameCount, factoryCalls, closeCalls,
              chunkAfterClose, sentFrom, factoryMsg, lastRecv, lastMsg, callFirst,
              chunkCall >>

InitDetector ==
    /\ cfg = Config(50, 20, 40)
    /\ newEngine = "stub"
    /\ pc = "done"
    /\ status = NoStatus
    /\ streamCfg \in { Config(50, sp, si) : sp \in DetDurations, si \in DetDurations }
    /\ ValidateVADParams(streamCfg) = ""
    /\ engineReady = FALSE
    /\ formatKnown = FALSE
    /\ bd = Nil
    /\ cachedFormat = Nil
    /\ sampleRate = 0
    /\ frameDurationMs \in DetFrameMs
    /\ streamStart = ZeroTime
    /\ frameCount = 0
    /\ sent = << >>
    /\ factoryCalls = 0
    /\ closeCalls = 0
    /\ chunkAfterClose = FALSE
    /\ resultsTotal = 0
    /\ lastCall = Nil
    /\ sentFrom = << >>
    /\ factoryMsg = Nil
    /\ lastRecv = "none"
    /\ lastMsg = Nil
    /\ callFirst = 0
    /\ chunkCall = Nil
    /\ eng = Nil
    /\ BenchIdle
    /\ MainIdle

\* bd = newBoundaryDetector(streamCfg, frameDurationMs)
NewDetector ==
    /\ bd = Nil
    /\ bd' = newBoundaryDetector(streamCfg, frameDurationMs)
    /\ UNCHANGED << streamCfg, frameDurationMs, sent, resultsTotal, lastCall >>
    /\ UNCHANGED << detRest, eng, benchVars, mainVars >>

\* events := bd.process(r)
CallProcess ==
    /\ bd # Nil
    /\ resultsTotal < MaxResults
    /\ \E r \in DetResults :
         LET p == process(bd, r) IN
         /\ bd' = p.bd
         /\ sent' = sent \o p.events
         /\ lastCall' = [idx |-> resultsTotal, pre |-> bd, result |-> r,
                         events |-> p.events, post |-> p.bd]
         /\ resultsTotal' = resultsTotal + 1
    /\ UNCHANGED << streamCfg, frameDurationMs >>
    /\ UNCHANGED << detRest, eng, benchVars, mainVars >>

NextDetector == NewDetector \/ CallProcess

SpecDetector == InitDetector /\ [][NextDetector]_vars

(***************************************************************************)
(* The state machine.                                                      *)
(***************************************************************************)
Init ==
    /\ cfg \in ProcessConfigs
    /\ newEngine \in Factories
    /\ pc = "recv"
    /\ status = NoStatus
    /\ streamCfg = cfg
    /\ eng = Nil
    /\ engineReady = FALSE
    /\ formatKnown = FALSE
    /\ bd = Nil
    /\ cachedFormat = Nil
    /\ sampleRate = 0
    /\ frameDurationMs = 0
    /\ streamStart = ZeroTime
    /\ frameCount = 0
    /\ sent = << >>
    /\ factoryCalls = 0
    /\ closeCalls = 0
    /\ chunkAfterClose = FALSE
    /\ resultsTotal = 0
    /\ lastCall = Nil
    /\ sentFrom = << >>
    /\ factoryMsg = Nil
    /\ lastRecv = "none"
    /\ lastMsg = Nil
    /\ callFirst = 0
    /\ chunkCall = Nil
    /\ BenchIdle
    /\ MainIdle

\* What time.Now() reads during this iteration: any reading before the stream
\* is anchored, a later reading than the anchor afterwards.
Now == IF streamStart = ZeroTime THEN Times ELSE {streamStart + 1}

\* One iteration of the loop on message m; frames bounds the Results of the stream.
Iterate(m, frames) ==
    \E made \in (IF engineReady THEN {Nil} ELSE FactoryOutcomes(newEngine, cfg)) :
      \E t \in Now :
        LET h == Handle(Locals, m, made, t) IN
        IF ~h.feed THEN Commit(h.L)
        ELSE LET n == FramesOf(h.L.eng, m.pcmLen) IN
             IF m.pcmLen = MaxPCMChunkBytes
             THEN \E o \in LongOutcomes(h.L.eng) :
                    Commit(Feed(h.L, m, o.probs, o.inferFail, o.sendFail))
             ELSE /\ h.L.frameCount + n <= frames
                  /\ \E o \in Outcomes(h.L.eng, n) :
                       Commit(Feed(h.L, m, o.probs, o.inferFail, o.sendFail))

\* stream.Recv() returns a message: one iteration of the loop.
RecvMsg ==
    /\ pc = "recv"
    /\ \E m \in Msgs : Iterate(m, MaxFrames)
    /\ lastRecv' = "msg"
    /\ lastMsg' = Nil
    /\ UNCHANGED << cfg, newEngine >>
    /\ UNCHANGED << benchVars, mainVars >>

\* The same iteration, with the message kept in lastMsg.
RecvMsgLogged ==
    /\ pc = "recv"
    /\ \E m \in Msgs \cup MaxChunkMsgs : Iterate(m, MaxLoggedFrames) /\ lastMsg' = m
    /\ lastRecv' = "msg"
    /\ UNCHANGED << cfg, newEngine >>
    /\ UNCHANGED << benchVars, mainVars >>

\* stream.Recv() returns io.EOF: the client half-closed.
RecvEOF ==
    /\ pc = "recv"
    /\ \E sendFails \in BOOLEAN : Commit(eofFlush(Locals, sendFails))
    /\ lastRecv' = "EOF"
    /\ lastMsg' = Nil
    /\ UNCHANGED << cfg, newEngine >>
    /\ UNCHANGED << benchVars, mainVars >>

\* stream.Recv() returns another error: transport failure or cancellation.
RecvError ==
    /\ pc = "recv"
    /\ Commit(Return(Locals, "Transport", "recv"))
    /\ lastRecv' = "error"
    /\ lastMsg' = Nil
    /\ UNCHANGED << cfg, newEngine >>
    /\ UNCHANGED << benchVars, mainVars >>

Next == RecvMsg \/ RecvEOF \/ RecvError

Spec == Init /\ [][Next]_vars

\* The stream with every message logged, over shorter streams.
NextLogged == RecvMsgLogged \/ RecvEOF \/ RecvError

SpecLogged == Init /\ [][NextLogged]_vars

(***************************************************************************)
(* Properties.                                                             *)
(***************************************************************************)
EventTypes(evs) == [i \in 1..Len(evs) |-> evs[i].Type]

SentTypes == EventTypes(sent)

\* The events sent, ONGOING events left out.
Boundaries == SelectSeq(sent, LAMBDA e : e.Type # "ONGOING")

Last(q) == q[Len(q)]

\* C1: a speech Result increments the speech counter and zeroes the silence
\* counter; it yields exactly one START (and in_speech becomes true) iff the
\* detector was not in speech and the incremented counter reaches
\* min_speech_frames, exactly one ONGOING iff it was already in speech, and
\* nothing otherwise.
C1_SpeechResult ==
    (lastCall # Nil /\ lastCall.result.IsSpeech) =>
        LET pre == lastCall.pre
            post == lastCall.post
            n == pre.speechFrames + 1
            starts == ~pre.inSpeech /\ n >= pre.minSpeechFrames
        IN /\ post.speechFrames = n
           /\ post.silenceFrames = 0
           /\ EventTypes(lastCall.events) =
                  IF starts THEN << "START" >>
                  ELSE IF pre.inSpeech THEN << "ONGOING" >>
                  ELSE << >>
           /\ post.inSpeech = (pre.inSpeech \/ starts)

\* A START produced by the second speech Result of a run (min_speech_frames = 2).
C1_Witness ==
    /\ lastCall # Nil
    /\ lastCall.result.IsSpeech
    /\ lastCall.pre.speechFrames = 1
    /\ lastCall.pre.minSpeechFrames = 2
    /\ EventTypes(lastCall.events) = << "START" >>

\* C2: a silence Result increments the silence counter and zeroes the speech
\* counter; it yields exactly one END (and in_speech becomes false) iff the
\* detector was in speech and the incremented counter reaches
\* min_silence_frames, and no event in every other case.
C2_SilenceResult ==
    (lastCall # Nil /\ ~lastCall.result.IsSpeech) =>
        LET pre == lastCall.pre
            post == lastCall.post
            n == pre.silenceFrames + 1
            ends == pre.inSpeech /\ n >= pre.minSilenceFrames
        IN /\ post.silenceFrames = n
           /\ post.speechFrames = 0
           /\ EventTypes(lastCall.events) = IF ends THEN << "END" >> ELSE << >>
           /\ post.inSpeech = (pre.inSpeech /\ ~ends)

\* An END produced by the second silence Result of a run (min_silence_frames = 2).
C2_Witness ==
    /\ lastCall # Nil
    /\ ~lastCall.result.IsSpeech
    /\ lastCall.pre.silenceFrames = 1
    /\ lastCall.pre.minSilenceFrames = 2
    /\ EventTypes(lastCall.events) = << "END" >>

\* C3: with ONGOING events left out, the events sent on the stream alternate
\* START, END, START, ... beginning with START, the END synthesised at EOF
\* included.
C3_Alternation ==
    \A i \in 1..Len(Boundaries) :
        Boundaries[i].Type = IF i % 2 = 1 THEN "START" ELSE "END"

\* Two complete cycles, the second closed by the END synthesised at EOF.
C3_Witness ==
    /\ lastRecv = "EOF"
    /\ status.code = "OK"
    /\ Len(Boundaries) = 4
    /\ Last(sentFrom) = -1
    /\ "ONGOING" \in {SentTypes[i] : i \in 1..Len(sent)}

\* C4 (as amended): at EOF with the detector in speech the orchestrator sends
\* exactly one more event, an END with the confidence of the most recently
\* processed Result and timestamp anchor + (Results processed) * frame
\* duration, and returns success, unless that Send fails, in which case
\* nothing is added and the send error is returned; with the detector not in
\* speech, or no detector, it sends nothing and returns success.  Any other
\* Recv error ends the stream with that error and no END.
C4_EofFlush ==
    [][ /\ (pc = "recv" /\ lastRecv' = "EOF") =>
              IF bd # Nil /\ bd.inSpeech
              THEN \/ /\ sent' = Append(sent,
                                   [Type |-> "END",
                                    Confidence |-> lastCall.result.Confidence,
                                    Timestamp |-> streamStart
                                                  + resultsTotal * frameDurationMs])
                      /\ status'.code = "OK"
                   \/ /\ sent' = sent
                      /\ status' = [code |-> "Transport", msg |-> "send"]
              ELSE sent' = sent /\ status'.code = "OK"
        /\ (pc = "recv" /\ lastRecv' = "error") =>
              sent' = sent /\ status' = [code |-> "Transport", msg |-> "recv"]
      ]_vars

\* EOF in a silence gap: the synthesised END carries the confidence of the
\* silence Result processed last, not that of the last event sent.
C4_Witness ==
    /\ lastRecv = "EOF"
    /\ status.code = "OK"
    /\ Len(sent) >= 2
    /\ Last(sentFrom) = -1
    /\ Last(sent).Type = "END"
    /\ ~lastCall.result.IsSpeech
    /\ Last(sent).Confidence = lastCall.result.Confidence
    /\ sent[Len(sent) - 1].Confidence # Last(sent).Confidence

\* C4 as stated: EOF with the detector in speech always ends in success with
\* the synthesised END sent.
C4_Original ==
    (lastRecv = "EOF" /\ bd # Nil /\ bd.inSpeech) =>
        /\ status.code = "OK"
        /\ sent # << >>
        /\ Last(sent).Type = "END"
        /\ Last(sentFrom) = -1

\* The events sent for the Result of the most recent bd.process call.
SentForLastCall ==
    { sent[k].Type : k \in { j \in 1..Len(sent) : sentFrom[j] = lastCall.idx } }

\* C5: while the detector is not in speech, a run of speech Results shorter
\* than min_speech_frames followed by a silence Result produces no event:
\* none during the run, none at the silence Result (which discards the run),
\* none at EOF.
C5_SubThresholdBurst ==
    /\ (/\ lastCall # Nil
        /\ ~lastCall.pre.inSpeech
        /\ \/ ~lastCall.result.IsSpeech
           \/ lastCall.pre.speechFrames + 1 < lastCall.pre.minSpeechFrames) =>
            /\ lastCall.events = << >>
            /\ SentForLastCall = {}
            /\ ~lastCall.post.inSpeech
            /\ ~lastCall.result.IsSpeech => lastCall.post.speechFrames = 0
    /\ (lastRecv = "EOF" /\ bd # Nil /\ ~bd.inSpeech) =>
            \A k \in 1..Len(sent) : sentFrom[k] # -1

\* A one-frame burst (min_speech_frames = 2), then silence, then EOF: nothing sent.
C5_Witness ==
    /\ lastRecv = "EOF"
    /\ status.code = "OK"
    /\ lastCall # Nil
    /\ ~lastCall.result.IsSpeech
    /\ ~lastCall.pre.inSpeech
    /\ lastCall.pre.speechFrames = 1
    /\ lastCall.pre.minSpeechFrames = 2
    /\ sent = << >>

\* C6: a silence gap inside an utterance that does not reach
\* min_silence_frames yields no END and no START and leaves in_speech true;
\* the speech Result that ends the gap yields ONGOING; every event sent for
\* the span is an ONGOING.
C6_ShortGap ==
    lastCall # Nil =>
        /\ (/\ ~lastCall.result.IsSpeech
            /\ lastCall.pre.inSpeech
            /\ lastCall.pre.silenceFrames + 1 < lastCall.pre.minSilenceFrames) =>
               /\ lastCall.post.inSpeech
               /\ \A i \in 1..Len(lastCall.events) :
                      lastCall.events[i].Type = "ONGOING"
               /\ SentForLastCall \subseteq {"ONGOING"}
        /\ (/\ lastCall.result.IsSpeech
            /\ lastCall.pre.inSpeech
            /\ lastCall.pre.silenceFrames >= 1) =>
               /\ lastCall.post.inSpeech
               /\ EventTypes(lastCall.events) = << "ONGOING" >>
               /\ SentForLastCall \subseteq {"ONGOING"}

\* Speech resumes after a one-frame gap (min_silence_frames = 2): ONGOING is sent.
C6_Witness ==
    /\ pc = "recv"
    /\ lastCall # Nil
    /\ lastCall.result.IsSpeech
    /\ lastCall.pre.inSpeech
    /\ lastCall.pre.silenceFrames = 1
    /\ lastCall.pre.minSilenceFrames = 2
    /\ Last(sent).Type = "ONGOING"
    /\ Last(sentFrom) = lastCall.idx

\* What C7 asks of the message on which the factory runs.
PassedValidation(m) ==
    /\ m.pcmLen > 0
    /\ m.pcmLen % 2 = 0
    /\ m.pcmLen <= MaxPCMChunkBytes
    /\ m.format # Nil =>
          /\ m.format.Encoding \in {"", "pcm_s16le"}
          /\ m.format.Channels \in {0, 1}
          /\ m.format.BitDepth \in {0, 16}
          /\ m.format.SampleRate \in {0, ExpectedSampleRate}
    /\ m.configJSON.kind # "malformed"
    /\ m.configJSON.SpeechPadMs = None

\* C7 (as amended): the factory is invoked only while handling a message with
\* non-empty PCM that passed format, PCM and config_json validation; a stream
\* rejected with InvalidArgument before any PCM chunk was accepted has factory
\* count 0; on every stream the factory count is at most 1.
C7_FactoryAfterValidation ==
    /\ factoryCalls <= 1
    /\ factoryMsg # Nil =>
          /\ factoryCalls = 1
          /\ PassedValidation(factoryMsg)
          /\ formatKnown /\ sampleRate = ExpectedSampleRate
          /\ streamCfg.Threshold \in 0..100
          /\ streamCfg.MinSpeechDurationMs \in 1..MaxDurationMs
          /\ streamCfg.MinSilenceDurationMs \in 1..MaxDurationMs
    /\ eng # Nil => factoryCalls = 1
    /\ (status.code = "InvalidArgument" /\ streamStart = ZeroTime) => factoryCalls = 0

\* The factory runs on a PCM message carrying a config override, after an
\* earlier message has been handled.
C7_Witness ==
    /\ factoryMsg # Nil
    /\ factoryCalls = 1
    /\ eng # Nil
    /\ pc = "recv"
    /\ factoryMsg.configJSON.kind = "object"
    /\ cachedFormat # Nil

\* C7 as stated: every stream rejected for an invalid format, PCM or
\* config_json has factory count 0.
C7_Original ==
    status.code = "InvalidArgument" => factoryCalls = 0

\* C8: once DetectSpeech has returned with an engine constructed, Close has
\* been called exactly once, on every exit path; it is not called while the
\* loop runs, and no ProcessChunk follows it.
C8_CloseOnce ==
    /\ (pc = "done" /\ eng # Nil) => (closeCalls = 1 /\ eng.closed)
    /\ pc = "recv" => (closeCalls = 0 /\ (eng # Nil => ~eng.closed))
    /\ eng = Nil => closeCalls = 0
    /\ ~chunkAfterClose

\* The stream ends on an engine-side error with the engine closed once.
C8_Witness ==
    /\ pc = "done"
    /\ status.code = "Internal"
    /\ eng # Nil
    /\ closeCalls = 1
    /\ ~engineReady

\* C9: an event produced from a Result is stamped anchor + frame_index *
\* frame_duration_ms where frame_index is the zero-based position of the
\* Result among all Results returned on the stream; frame_index advances once
\* per Result, with or without an event.
C9_FrameIndex ==
    /\ \A k \in 1..Len(sent) :
          sentFrom[k] >= 0 =>
              sent[k].Timestamp = streamStart + sentFrom[k] * frameDurationMs
    /\ pc = "recv" => frameCount = resultsTotal
    /\ (pc = "recv" /\ lastCall # Nil) => frameCount = lastCall.idx + 1

\* The first event comes from the fourth Result, after three without event.
C9_Witness ==
    /\ pc = "recv"
    /\ Len(sent) = 1
    /\ sent[1].Type = "START"
    /\ sentFrom[1] = 3
    /\ frameCount = 4
    /\ sent[1].Timestamp = streamStart + 3 * frameDurationMs

\* C10: timestamps of the events sent on a stream are strictly increasing
\* in send order, the END synthesised at EOF included.
C10_StrictlyIncreasing ==
    \A i, j \in 1..Len(sent) :
        i < j => sent[i].Timestamp < sent[j].Timestamp

\* START, ONGOING, then the END synthesised at EOF.
C10_Witness ==
    /\ lastRecv = "EOF"
    /\ Len(sent) >= 3
    /\ Last(sentFrom) = -1
    /\ sentFrom[Len(sent) - 1] = resultsTotal - 1
    /\ sent[Len(sent) - 1].Type = "ONGOING"

\* Positions in sent of the events sent for the latest ProcessChunk call.
CallEvents == { k \in 1..Len(sent) : sentFrom[k] >= callFirst }

\* C11 (as amended): two successive events sent for one ProcessChunk call
\* differ by frame_duration_ms times the distance between the Results that
\* produced them: exactly frame_duration_ms when those Results are adjacent,
\* a larger multiple when Results in between produced no event.
C11_SuccessiveEvents ==
    \A k \in CallEvents :
        (k + 1) \in CallEvents =>
            /\ sentFrom[k + 1] > sentFrom[k]
            /\ sent[k + 1].Timestamp - sent[k].Timestamp
                  = (sentFrom[k + 1] - sentFrom[k]) * frameDurationMs
            /\ sent[k + 1].Timestamp - sent[k].Timestamp >= frameDurationMs

\* One call returns speech, silence, speech with the detector in speech:
\* START and ONGOING are two Results apart.
C11_Witness ==
    /\ pc = "recv"
    /\ \E k \in CallEvents :
          /\ (k + 1) \in CallEvents
          /\ sentFrom[k + 1] = sentFrom[k] + 2
          /\ sent[k + 1].Timestamp - sent[k].Timestamp = 2 * frameDurationMs

\* C11 as stated: successive events of one call differ by exactly
\* frame_duration_ms.
C11_Original ==
    \A k \in CallEvents :
        (k + 1) \in CallEvents =>
            sent[k + 1].Timestamp - sent[k].Timestamp = frameDurationMs

\* C12: the anchor is set exactly once, by the first accepted non-empty PCM
\* chunk; a message without PCM never sets it and no later step changes it.
C12_AnchorOnce ==
    [][ /\ streamStart # ZeroTime => streamStart' = streamStart
        /\ (streamStart = ZeroTime /\ streamStart' # ZeroTime) =>
              /\ lastRecv' = "msg"
              /\ lastMsg'.pcmLen > 0
              /\ lastMsg'.pcmLen % 2 = 0
              /\ lastMsg'.pcmLen <= MaxPCMChunkBytes
              /\ ~engineReady /\ engineReady'
              /\ streamStart' \in Times
        /\ (~engineReady /\ engineReady') => streamStart' # ZeroTime
        /\ (lastRecv' = "msg" /\ lastMsg'.pcmLen = 0) => streamStart' = streamStart
      ]_vars

\* A later PCM chunk (not the one the engine was built on) has been
\* processed on an anchored stream.
C12_Witness ==
    /\ pc = "recv"
    /\ streamStart # ZeroTime
    /\ lastMsg # Nil
    /\ lastMsg.pcmLen > 0
    /\ factoryMsg = Nil
    /\ resultsTotal >= 2

\* The error texts of applyStreamConfig.
ConfigErrors ==
    {"invalid config_json", "speech_pad_ms", "threshold",
     "min_speech_duration_ms", "min_silence_duration_ms"}

\* A format that passes the checks made once the format is established.
ConsistentFormat(af) ==
    af # Nil =>
        /\ af.SampleRate \in {0, sampleRate}
        /\ af.Encoding \in {"", "pcm_s16le"}
        /\ af.Channels \in {0, 1}
        /\ af.BitDepth \in {0, 16}

\* C13: once the first non-empty PCM chunk has been accepted, a config_json
\* in a later message changes neither the stream config, nor the engine
\* threshold, nor min_speech_frames/min_silence_frames, and never ends the
\* stream: a later message whose format and PCM are acceptable is never
\* answered with InvalidArgument, whatever its config_json.
C13_ConfigFrozen ==
    [][ engineReady =>
          /\ streamCfg' = streamCfg
          /\ eng'.threshold = eng.threshold
          /\ bd'.minSpeechFrames = bd.minSpeechFrames
          /\ bd'.minSilenceFrames = bd.minSilenceFrames
          /\ status'.msg \notin ConfigErrors
          /\ (/\ lastRecv' = "msg"
              /\ ConsistentFormat(lastMsg'.format)
              /\ lastMsg'.pcmLen % 2 = 0
              /\ lastMsg'.pcmLen <= MaxPCMChunkBytes) =>
                 status'.code # "InvalidArgument"
      ]_vars

\* A later PCM message carrying a malformed config_json was processed and
\* the stream goes on.
C13_Witness ==
    /\ pc = "recv"
    /\ engineReady
    /\ factoryMsg = Nil
    /\ lastMsg # Nil
    /\ lastMsg.pcmLen > 0
    /\ lastMsg.configJSON.kind = "malformed"
    /\ streamCfg = cfg

\* Config c overlaid by the fields a config_json gives.
Overlay(c, cj) ==
    IF cj.kind # "object" THEN c
    ELSE [Threshold |->
              IF cj.Threshold = None THEN c.Threshold ELSE cj.Threshold[1],
          MinSpeechDurationMs |->
              IF cj.MinSpeechDurationMs = None THEN c.MinSpeechDurationMs
              ELSE cj.MinSpeechDurationMs[1],
          MinSilenceDurationMs |->
              IF cj.MinSilenceDurationMs = None THEN c.MinSilenceDurationMs
              ELSE cj.MinSilenceDurationMs[1]]

\* The least number of frames of fd ms that cover ms milliseconds (ms >= 1).
FramesCovering(ms, fd) ==
    CHOOSE n \in 1..ms : n * fd >= ms /\ (n - 1) * fd < ms

\* C14: the stream config starts as the process defaults; every message
\* accepted before the engine is ready, the first PCM message included,
\* overlays it with the fields of its config_json and keeps the others
\* (a keepalive keeps all); the engine and the detector are built from the
\* config so layered.
C14_ConfigLayering ==
    /\ streamCfg = cfg
    /\ [][ /\ (~engineReady /\ lastRecv' = "msg" /\ pc' = "recv") =>
                 streamCfg' = Overlay(streamCfg, lastMsg'.configJSON)
           /\ (~engineReady /\ engineReady') =>
                 /\ streamCfg' = Overlay(streamCfg, lastMsg'.configJSON)
                 /\ eng'.kind = "silero" => eng'.threshold = streamCfg'.Threshold
                 /\ bd'.minSpeechFrames =
                        FramesCovering(streamCfg'.MinSpeechDurationMs, frameDurationMs')
                 /\ bd'.minSilenceFrames =
                        FramesCovering(streamCfg'.MinSilenceDurationMs, frameDurationMs')
         ]_vars

\* Three config_json in three messages, each naming one field, all in force
\* when the Silero engine and the detector are built.
C14_Witness ==
    /\ engineReady
    /\ cfg = Config(50, 20, 40)
    /\ streamCfg = Config(40, 40, 20)
    /\ eng.kind = "silero"
    /\ eng.threshold = 40
    /\ bd.minSpeechFrames = 2
    /\ bd.minSilenceFrames = 1

\* A config within the ranges threshold in [0,1], durations in (0,60000].
InRange(c) ==
    /\ c.Threshold \in 0..100
    /\ c.MinSpeechDurationMs \in 1..MaxDurationMs
    /\ c.MinSilenceDurationMs \in 1..MaxDurationMs

\* A config_json that must be rejected when layered on config c.
BadConfig(c, cj) ==
    \/ cj.kind = "malformed"
    \/ cj.kind = "object" /\ cj.SpeechPadMs # None
    \/ cj.kind = "object" /\ ~InRange(Overlay(c, cj))

\* C15: before the config is frozen, a message (with or without PCM) whose
\* config_json is malformed, names speech_pad_ms or layers to an out-of-range
\* config ends the stream with InvalidArgument, with no event sent and no
\* engine created.
C15_InvalidConfigRejected ==
    [][ (/\ ~engineReady
         /\ lastRecv' = "msg"
         /\ BadConfig(streamCfg, lastMsg'.configJSON)) =>
            /\ pc' = "done"
            /\ status'.code = "InvalidArgument"
            /\ sent' = << >>
            /\ factoryCalls' = 0
            /\ eng' = Nil
      ]_vars

\* The first PCM message carries min_silence_duration_ms = 60001 and is
\* rejected for it before the factory runs.
C15_Witness ==
    /\ pc = "done"
    /\ status = [code |-> "InvalidArgument", msg |-> "min_silence_duration_ms"]
    /\ lastMsg # Nil
    /\ lastMsg.pcmLen > 0
    /\ lastMsg.configJSON.MinSilenceDurationMs = Some(MaxDurationMs + 1)
    /\ factoryCalls = 0
    /\ sent = << >>

\* A format with a non-zero field outside the accepted values.
BadFormat(af) ==
    /\ af # Nil
    /\ \/ af.Encoding \notin {"", "pcm_s16le"}
       \/ af.Channels \notin {0, 1}
       \/ af.BitDepth \notin {0, 16}
       \/ af.SampleRate \notin {0, ExpectedSampleRate}

\* C16, what the code does: a message whose format has a non-zero field
\* outside the accepted values ends the stream with InvalidArgument, except a
\* message without PCM received before the format is established whose
\* format has sample_rate = 0: that format is not inspected, it is neither
\* cached nor a reason for rejection.
C16_InspectedFormats ==
    [][ (lastRecv' = "msg" /\ BadFormat(lastMsg'.format)) =>
          IF ~formatKnown /\ lastMsg'.pcmLen = 0 /\ lastMsg'.format.SampleRate = 0
          THEN /\ cachedFormat' = cachedFormat
               /\ ~formatKnown'
               /\ status'.code = "InvalidArgument" => status'.msg \in ConfigErrors
          ELSE /\ pc' = "done"
               /\ status'.code = "InvalidArgument"
      ]_vars

\* A message without PCM whose format names encoding pcm_f32le (and no
\* sample_rate) has been received before any PCM, and the stream goes on.
C16_Witness ==
    /\ pc = "recv"
    /\ status = NoStatus
    /\ lastMsg # Nil
    /\ lastMsg.pcmLen = 0
    /\ lastMsg.format # Nil
    /\ lastMsg.format.Encoding = "pcm_f32le"
    /\ ~formatKnown

\* C16: every message whose format has a non-zero field outside the accepted
\* values ends the stream with InvalidArgument.
C16_Original ==
    (lastMsg # Nil /\ BadFormat(lastMsg.format)) => status.code = "InvalidArgument"

\* The error texts of the format checks.
FormatErrors ==
    {"unsupported encoding", "unsupported channels", "unsupported bit_depth",
     "unsupported sample_rate", "sample_rate mismatch", "audio format required",
     "audio format must include sample_rate", "sample_rate changed mid-stream"}

\* C17: before the format is established, an accepted message whose format
\* has sample_rate > 0 makes that format the cached one (the latest wins); a
\* message with no format or with sample_rate = 0 leaves the cached format as
\* it was; the cached format is always a valid one; and a first PCM message
\* with no format, or a valid one with sample_rate = 0, proceeds on the
\* cached format.
C17_FormatCaching ==
    [][ (~formatKnown /\ lastRecv' = "msg") =>
          /\ (pc' = "recv" /\ lastMsg'.format # Nil /\ lastMsg'.format.SampleRate > 0) =>
                 cachedFormat' = lastMsg'.format
          /\ (lastMsg'.format = Nil \/ lastMsg'.format.SampleRate = 0) =>
                 cachedFormat' = cachedFormat
          /\ cachedFormat' # Nil =>
                 (~BadFormat(cachedFormat') /\ cachedFormat'.SampleRate > 0)
          /\ (/\ lastMsg'.pcmLen > 0
              /\ cachedFormat # Nil
              /\ \/ lastMsg'.format = Nil
                 \/ lastMsg'.format.SampleRate = 0 /\ ~BadFormat(lastMsg'.format)) =>
                 /\ formatKnown'
                 /\ sampleRate' = cachedFormat.SampleRate
                 /\ status'.msg \notin FormatErrors
      ]_vars

\* The first PCM message carries an empty format {} and the stream runs on
\* the format cached from an earlier message.
C17_Witness ==
    /\ pc = "recv"
    /\ formatKnown
    /\ lastMsg # Nil
    /\ factoryMsg = lastMsg
    /\ lastMsg.pcmLen > 0
    /\ lastMsg.format = AudioFormat(0, "", 0, 0)
    /\ cachedFormat = AudioFormat(ExpectedSampleRate, "pcm_s16le", 1, 16)
    /\ sampleRate = ExpectedSampleRate

\* C18: at the first message with non-empty PCM (its own format fields being
\* acceptable) the sample rate is taken from the cached format if there is
\* one, else from the message's format; with neither, or with a sample rate
\* of 0, the stream ends with InvalidArgument and no engine is created.
C18_EffectiveFormat ==
    [][ (/\ ~formatKnown
         /\ lastRecv' = "msg"
         /\ lastMsg'.pcmLen > 0
         /\ ~BadFormat(lastMsg'.format)) =>
          LET eff == IF cachedFormat # Nil THEN cachedFormat ELSE lastMsg'.format IN
          IF eff = Nil
          THEN /\ status' = [code |-> "InvalidArgument", msg |-> "audio format required"]
               /\ factoryCalls' = 0 /\ eng' = Nil
          ELSE IF eff.SampleRate = 0
          THEN /\ status' = [code |-> "InvalidArgument",
                             msg |-> "audio format must include sample_rate"]
               /\ factoryCalls' = 0 /\ eng' = Nil
          ELSE /\ formatKnown'
               /\ sampleRate' = eff.SampleRate
               /\ status'.msg \notin FormatErrors
      ]_vars

\* The first PCM message carries a format without sample_rate, nothing was
\* cached, and the stream is rejected before the factory runs.
C18_Witness ==
    /\ pc = "done"
    /\ status = [code |-> "InvalidArgument",
                 msg |-> "audio format must include sample_rate"]
    /\ lastMsg # Nil
    /\ lastMsg.pcmLen > 0
    /\ lastMsg.format # Nil
    /\ cachedFormat = Nil
    /\ factoryCalls = 0

\* C19: once the format is established, a later message (with or without
\* PCM) whose format names another non-zero sample_rate, or an unaccepted
\* encoding, channels or bit_depth, ends the stream with InvalidArgument
\* before its PCM reaches the engine.
C19_FormatRevalidated ==
    [][ (/\ formatKnown
         /\ lastRecv' = "msg"
         /\ lastMsg'.format # Nil
         /\ \/ lastMsg'.format.SampleRate \notin {0, sampleRate}
            \/ lastMsg'.format.Encoding \notin {"", "pcm_s16le"}
            \/ lastMsg'.format.Channels \notin {0, 1}
            \/ lastMsg'.format.BitDepth \notin {0, 16}) =>
          /\ pc' = "done"
          /\ status'.code = "InvalidArgument"
          /\ status'.msg \in FormatErrors
          /\ resultsTotal' = resultsTotal
          /\ eng'.pcmBuf = eng.pcmBuf
          /\ sent' = sent
      ]_vars

\* After audio started, a message without PCM whose format names two
\* channels ends the stream.
C19_Witness ==
    /\ pc = "done"
    /\ status = [code |-> "InvalidArgument", msg |-> "unsupported channels"]
    /\ engineReady
    /\ resultsTotal >= 1
    /\ lastMsg # Nil
    /\ lastMsg.pcmLen = 0
    /\ lastMsg.format.Channels = 2

\* C20: every non-empty PCM chunk, the first and every later one, is checked
\* before it reaches the engine. A chunk of odd length or longer than
\* MaxPCMChunkBytes ends the stream with InvalidArgument: no factory call, no
\* Result, nothing buffered in the engine and nothing sent; when the format
\* raises no objection, the error is the PCM check's own. A chunk of exactly
\* MaxPCMChunkBytes is never refused by the PCM checks, and with a consistent
\* format on a running stream it is not refused at all.
C20_PcmChecked ==
    [][ (lastRecv' = "msg" /\ lastMsg'.pcmLen > 0) =>
          /\ (lastMsg'.pcmLen % 2 # 0 \/ lastMsg'.pcmLen > MaxPCMChunkBytes) =>
                /\ pc' = "done" /\ status'.code = "InvalidArgument"
                /\ factoryCalls' = factoryCalls /\ resultsTotal' = resultsTotal
                /\ (eng # Nil => eng'.pcmBuf = eng.pcmBuf)
                /\ sent' = sent
                /\ (formatKnown /\ lastMsg'.format \in {Nil, F16k}) =>
                      status'.msg = IF lastMsg'.pcmLen % 2 # 0 THEN "odd length"
                                    ELSE "PCM chunk too large"
          /\ lastMsg'.pcmLen = MaxPCMChunkBytes =>
                /\ status'.msg \notin {"odd length", "PCM chunk too large"}
                /\ (engineReady /\ lastMsg'.format \in {Nil, F16k}) =>
                      status'.code # "InvalidArgument"
      ]_vars

\* A later chunk, after audio has been processed, is refused for its size.
C20_Witness ==
    /\ pc = "done"
    /\ status = [code |-> "InvalidArgument", msg |-> "PCM chunk too large"]
    /\ resultsTotal >= 1
    /\ lastMsg # Nil /\ lastMsg.pcmLen = MaxPCMChunkBytes + 2

\* A chunk of exactly MaxPCMChunkBytes has passed the checks and reached
\* the engine.
C20_MaxChunkAccepted ==
    /\ lastMsg # Nil /\ lastMsg.pcmLen = MaxPCMChunkBytes
    /\ status.code = "Internal" /\ factoryCalls = 1

\* C21: a message without PCM never creates the engine, never reaches
\* ProcessChunk, never advances the frame index, the engine's buffer, toggle
\* counter or phase, never sets the anchor and never emits an event, before
\* or after the first PCM; when its format and config_json are valid the
\* stream goes on without a status, engine and detector as they were.
C21_EmptyPcmNoEffect ==
    [][ (lastRecv' = "msg" /\ lastMsg'.pcmLen = 0) =>
          /\ factoryCalls' = factoryCalls
          /\ resultsTotal' = resultsTotal
          /\ frameCount' = frameCount
          /\ streamStart' = streamStart
          /\ sent' = sent
          /\ (eng = Nil => eng' = Nil)
          /\ (eng # Nil => /\ eng'.pcmBuf = eng.pcmBuf
                           /\ eng'.counter = eng.counter
                           /\ eng'.speaking = eng.speaking)
          /\ (/\ ~BadFormat(lastMsg'.format)
              /\ engineReady \/ ~BadConfig(streamCfg, lastMsg'.configJSON)) =>
                 /\ pc' = "recv" /\ status' = NoStatus
                 /\ eng' = eng /\ bd' = bd
      ]_vars

\* A keepalive (no PCM, no format, no config) arrived after audio had been
\* processed with part of a window still buffered, and the stream goes on.
C21_Witness ==
    /\ pc = "recv" /\ status = NoStatus
    /\ lastMsg = Msg(Nil, 0, CJEmpty)
    /\ engineReady /\ resultsTotal >= 1
    /\ eng.pcmBuf > 0

\* This step is a ProcessChunk call on the engine bench.
IsChunkCall == benchLog'.calls = benchLog.calls + 1

C23_ChunkingInvariance ==
    (benchLog.resets = 0 /\ ~benchLog.failed) =>
        /\ Len(allResults) = Len(refResults)
        /\ \A k \in 1..Len(allResults) :
              /\ allResults[k].IsSpeech = refResults[k].IsSpeech
              /\ allResults[k].Confidence = refResults[k].Confidence

\* Silero was given its audio in three chunks, the last one leaving a
\* partial window, and returned speech and silence.
C23_Witness ==
    /\ eng.kind = "silero"
    /\ benchLog = [calls |-> 3, resets |-> 0, failed |-> FALSE, tuned |-> FALSE,
                  closes |-> 0, destroyed |-> 0]
    /\ engCall.err = "" /\ engCall.pcmLen = 640
    /\ eng.pcmBuf > 0
    /\ \E i, j \in 1..Len(allResults) : allResults[i].IsSpeech /\ ~allResults[j].IsSpeech

\* C24: a new or reset StubEngine starts in silence and its k-th Result is
\* speech iff floor(k / StubToggleInterval) is odd, with confidence
\* StubConfidence, whatever the audio, the chunking and the thresholds set.
C24_StubPhase ==
    eng.kind = "stub" =>
        \A k \in 1..Len(allResults) :
            /\ allResults[k].IsSpeech = ((k \div StubToggleInterval) % 2 = 1)
            /\ allResults[k].Confidence = StubConfidence

\* The stub has returned its hundredth Result, in silence again, after a
\* SetThreshold call.
C24_Witness ==
    /\ eng.kind = "stub"
    /\ Len(allResults) >= 2 * StubToggleInterval
    /\ allResults[StubToggleInterval].IsSpeech
    /\ ~allResults[2 * StubToggleInterval].IsSpeech
    /\ benchLog.tuned

\* C25: Reset keeps the threshold and leaves the engine as a new one of that
\* threshold (stub: counter 0, silence, empty buffer; Silero: empty buffer,
\* cleared state tensor); the Results returned after a Reset, as long as no
\* call fails, are those of an engine constructed at the moment of the Reset
\* and given the same samples and thresholds.
C25_ResetEquivalence ==
    [][ /\ benchLog'.resets > benchLog.resets =>
              /\ eng'.threshold = eng.threshold
              /\ eng' = Engine(eng.kind, eng.threshold)
              /\ stateTensor' = 0
        /\ (benchLog'.resets >= 1 /\ ~benchLog'.failed) =>
              allResults' = refResults'
      ]_vars

\* Silero, with a threshold set after construction, was reset and has
\* returned Results for the audio given since.
C25_Witness ==
    /\ eng.kind = "silero"
    /\ benchLog.resets = 1 /\ ~benchLog.failed /\ ~benchLog.tuned
    /\ eng.threshold = 70
    /\ Len(allResults) >= 1
    /\ engCall.op = "ProcessChunk"

\* C26: a ProcessChunk call with a sample rate other than ExpectedSampleRate
\* fails with ErrWrongSampleRate, whatever the length; with the expected
\* rate and an odd length it fails with the odd-length error; either way no
\* Result is returned and the engine (buffer, counter, phase, state tensor)
\* is as before the call.
C26_InputErrors ==
    [][ (IsChunkCall /\ (engCall'.sr # ExpectedSampleRate \/ engCall'.pcmLen % 2 # 0)) =>
          /\ engCall'.err = IF engCall'.sr # ExpectedSampleRate
                            THEN "ErrWrongSampleRate" ELSE "odd length"
          /\ engCall'.results = << >>
          /\ eng' = eng
          /\ stateTensor' = stateTensor
          /\ allResults' = allResults
      ]_vars

\* The stub, in mid-phase with samples buffered, was called with three bytes
\* at 8 kHz and answered ErrWrongSampleRate.
C26_Witness ==
    /\ eng.kind = "stub"
    /\ engCall # Nil /\ engCall.op = "ProcessChunk"
    /\ engCall.sr = 8000 /\ engCall.pcmLen = 3
    /\ engCall.err = "ErrWrongSampleRate"
    /\ eng.pcmBuf > 0 /\ eng.counter > 0

\* C27: an engine failure ends the stream with an Internal status in the
\* same iteration, with no event sent in it and none after: a factory that
\* returns nil gives "engine creation failed", an engine whose frame duration
\* is not positive gives Internal before any chunk is processed, a failed
\* ProcessChunk (Silero then still holds a whole window) gives "audio
\* processing failed" with the frame index where it was; the factory is
\* called once per stream, never again.
C27_EngineFailures ==
    [][ /\ (factoryCalls' = factoryCalls + 1 /\ eng' = Nil) =>
              /\ pc' = "done"
              /\ status' = [code |-> "Internal", msg |-> "engine creation failed"]
        /\ (factoryCalls' = factoryCalls + 1 /\ eng' # Nil /\ FrameDurationMs(eng') <= 0) =>
              /\ pc' = "done"
              /\ status' = [code |-> "Internal", msg |-> "invalid frame duration"]
              /\ resultsTotal' = 0
        /\ (eng' # Nil /\ eng'.kind = "silero" /\ eng'.pcmBuf >= sileroWindowSize) =>
              /\ pc' = "done"
              /\ status' = [code |-> "Internal", msg |-> "audio processing failed"]
              /\ frameCount' = frameCount
        /\ status'.code = "Internal" =>
              /\ pc' = "done"
              /\ sent' = sent
              /\ factoryCalls' = 1
        /\ pc = "done" => UNCHANGED vars
      ]_vars

\* A stream that had sent events ended with "audio processing failed".
C27_Witness ==
    /\ pc = "done"
    /\ status = [code |-> "Internal", msg |-> "audio processing failed"]
    /\ sent # << >>
    /\ frameCount >= 1
    /\ eng.pcmBuf >= sileroWindowSize

\* C28: a DetectSpeech invocation is answered Unavailable, with no message
\* read, exactly when the real service is not installed at that moment, and
\* is delegated to the real service otherwise, however the arrivals
\* interleave with startup; the pointer is written once, by setServer, and
\* never changes afterwards.
C28_LazyReadiness ==
    [][ /\ \A c \in Clients :
              streams'[c] # streams[c] =>
                  /\ streams[c] = "none"
                  /\ streams'[c] = IF lazyService = Nil THEN "Unavailable" ELSE "delegated"
                  /\ lastRecv' = lastRecv /\ pc' = pc
        /\ lazyService # Nil => lazyService' = lazyService
        /\ lazyService' # lazyService => mainPc = "setServer"
      ]_vars

\* One invocation arrived before setServer and one after it.
C28_Witness ==
    /\ mainPc = "ready"
    /\ streams[1] = "Unavailable"
    /\ streams[2] = "delegated"

\* C29: the real service is installed first and the two health statuses are
\* set to SERVING afterwards, the overall one before the service's, each in
\* a step of its own: a step that installs the service leaves both statuses
\* NOT_SERVING, and a status only becomes SERVING with the service installed.
C29_HealthAfterInstall ==
    [][ /\ lazyService' # lazyService =>
              /\ healthServer' = healthServer
              /\ \A n \in {"", serviceName} : healthServer[n] = "NOT_SERVING"
        /\ (healthServer[""] # "SERVING" /\ healthServer'[""] = "SERVING") =>
              /\ lazyService # Nil /\ lazyService' = lazyService
              /\ healthServer'[serviceName] = "NOT_SERVING"
        /\ (healthServer[serviceName] # "SERVING"
               /\ healthServer'[serviceName] = "SERVING") =>
              /\ lazyService # Nil /\ lazyService' = lazyService
              /\ healthServer[""] = "SERVING"
      ]_vars

\* An invocation was delegated to the real service while the service's
\* health status still said NOT_SERVING and the overall one SERVING.
C29_Witness ==
    /\ mainPc = "healthService"
    /\ lazyService # Nil
    /\ healthServer[""] = "SERVING"
    /\ healthServer[serviceName] = "NOT_SERVING"
    /\ \E c \in Clients : streams[c] = "delegated"

\* C29 as stated: the service is replaced and the health status flips in
\* one step.
C29_Original ==
    [][ (lazyService' # lazyService) <=>
            (healthServer'[serviceName] # healthServer[serviceName]) ]_vars

\* C30: once the switch has run, "stub" has given the stub factory;
\* "silero" has exited with a non-zero code when the backend is not compiled
\* in or the probe failed, dev mode or not, and given the Silero factory
\* otherwise; "auto" has given Silero when compiled in with a good probe,
\* the stub when not compiled in, the stub when the probe failed in dev
\* mode, and exited non-zero when the probe failed outside dev mode. The
\* service installed carries that factory, and a run that has exited has no
\* service installed and both health statuses NOT_SERVING.
C30_EngineResolution ==
    /\ mainPc \notin {"resolve", "switch"} =>
          LET e == mainEnv
              probeOk == e.NativeAvailable /\ ~e.probeFails
              expected ==
                  IF e.Engine = "stub" THEN "stub"
                  ELSE IF e.Engine = "silero"
                  THEN (IF probeOk THEN "silero" ELSE "exit")
                  ELSE IF probeOk THEN "silero"
                  ELSE IF ~e.NativeAvailable THEN "stub"
                  ELSE IF e.devMode THEN "stub"
                  ELSE "exit"
          IN IF expected = "exit"
             THEN exitCode > 0 /\ mainPc = "exited"
             ELSE exitCode = NoExit /\ mainLocals.newEngine = expected
    /\ lazyService # Nil => lazyService.newEngine = mainLocals.newEngine
    /\ exitCode # NoExit =>
          /\ lazyService = Nil
          /\ \A n \in {"", serviceName} : healthServer[n] = "NOT_SERVING"
          /\ \A c \in Clients : streams[c] # "delegated"

\* "auto" with Silero compiled in, a failed probe and dev mode: the adapter
\* is ready with the stub factory.
C30_Witness ==
    /\ mainPc = "ready"
    /\ mainEnv = [Engine |-> "auto", NativeAvailable |-> TRUE, probeFails |-> TRUE,
                  devMode |-> TRUE]
    /\ lazyService = [newEngine |-> "stub"]
    /\ healthServer[serviceName] = "SERVING"

\* n is the least number of frames of fd ms that cover ms milliseconds.
IsCeiling(n, ms, fd) == n * fd >= ms /\ (n - 1) * fd < ms

\* C36: the detector built from a valid config and a frame duration has
\* min_speech_frames = max(1, ceil(min_speech_ms / frame_duration_ms)) and
\* min_silence_frames = max(1, ceil(min_silence_ms / frame_duration_ms)):
\* 250 ms at 20 ms gives 13, 1100 ms at 20 ms gives 55, 1 ms gives 1; and no
\* process() call changes either threshold.
C36_FrameThresholds ==
    /\ bd # Nil =>
         /\ bd.minSpeechFrames >= 1
         /\ bd.minSilenceFrames >= 1
         /\ IsCeiling(bd.minSpeechFrames, streamCfg.MinSpeechDurationMs, frameDurationMs)
         /\ IsCeiling(bd.minSilenceFrames, streamCfg.MinSilenceDurationMs, frameDurationMs)
         /\ (streamCfg.MinSpeechDurationMs = 250 /\ frameDurationMs = 20)
              => bd.minSpeechFrames = 13
         /\ (streamCfg.MinSilenceDurationMs = 1100 /\ frameDurationMs = 20)
              => bd.minSilenceFrames = 55
         /\ streamCfg.MinSpeechDurationMs = 1 => bd.minSpeechFrames = 1
         /\ streamCfg.MinSilenceDurationMs = 1 => bd.minSilenceFrames = 1
    /\ lastCall # Nil =>
         /\ lastCall.post.minSpeechFrames = lastCall.pre.minSpeechFrames
         /\ lastCall.post.minSilenceFrames = lastCall.pre.minSilenceFrames

\* A detector for 250 ms of speech and 1100 ms of silence at 20 ms per frame
\* that has processed Results.
C36_Witness ==
    /\ bd # Nil
    /\ frameDurationMs = 20
    /\ streamCfg.MinSpeechDurationMs = 250
    /\ streamCfg.MinSilenceDurationMs = 1100
    /\ resultsTotal >= 2

\* C39: after every process() call at most one of speechFrames and
\* silenceFrames is non-zero; outside speech speechFrames is below
\* minSpeechFrames and inside speech silenceFrames is below
\* minSilenceFrames; a Result yields at most one event; and every ONGOING
\* event follows a START or another ONGOING, with no END in between.
C39_DetectorCounters ==
    /\ bd # Nil =>
         /\ bd.speechFrames = 0 \/ bd.silenceFrames = 0
         /\ ~bd.inSpeech => bd.speechFrames < bd.minSpeechFrames
         /\ bd.inSpeech => bd.silenceFrames < bd.minSilenceFrames
    /\ lastCall # Nil => Len(lastCall.events) <= 1
    /\ \A i \in 1..Len(sent) :
         sent[i].Type = "ONGOING" =>
             /\ i > 1
             /\ sent[i-1].Type \in {"START", "ONGOING"}

\* Speech that started, went on, ended and started again, now one frame
\* into a silence that needs more than one frame to end it.
C39_Witness ==
    /\ bd # Nil
    /\ bd.inSpeech
    /\ bd.silenceFrames = 1
    /\ bd.minSilenceFrames > 1
    /\ \E i \in 1..Len(sent) : sent[i].Type = "ONGOING"
    /\ \E i \in 1..Len(sent) : sent[i].Type = "END"

\* C37: the Silero engine holds the threshold of the stream's frozen config
\* from initEngine on, at every ProcessChunk call of the stream and after it;
\* every Result it hands to the detector is speech exactly when its
\* confidence, the probability, is at or above that threshold.
C37_ThresholdApplied ==
    /\ (engineReady /\ eng.kind = "silero") => eng.threshold = streamCfg.Threshold
    /\ (chunkCall # Nil /\ chunkCall.kind = "silero") =>
           chunkCall.threshold = streamCfg.Threshold
    /\ (lastCall # Nil /\ eng.kind = "silero") =>
           /\ lastCall.result.Confidence \in Probs
           /\ lastCall.result.IsSpeech
                <=> (lastCall.result.Confidence >= streamCfg.Threshold)

\* A Silero stream whose config_json lowered the threshold to 40: a window of
\* probability 40, exactly the threshold, was speech.
C37_Witness ==
    /\ engineReady
    /\ eng.kind = "silero"
    /\ streamCfg.Threshold = 40
    /\ cfg.Threshold # streamCfg.Threshold
    /\ chunkCall # Nil
    /\ lastCall # Nil
    /\ lastCall.result.Confidence = 40
    /\ lastCall.result.IsSpeech

\* C40: at every eng.ProcessChunk call of the stream the engine and the
\* detector exist and the frame duration is positive; the chunk is non-empty,
\* of even length, at most MaxPCMChunkBytes long and at ExpectedSampleRate,
\* so the stub engine returns no error; at every bd.process call the detector
\* and the engine exist; and an end of stream that finds no detector returns
\* OK without sending anything.
C40_InitialisedBeforeUse ==
    /\ chunkCall # Nil =>
         /\ chunkCall.engine
         /\ chunkCall.detector
         /\ chunkCall.frameDurationMs > 0
         /\ chunkCall.pcmLen > 0
         /\ chunkCall.pcmLen % 2 = 0
         /\ chunkCall.pcmLen <= MaxPCMChunkBytes
         /\ chunkCall.sampleRate = ExpectedSampleRate
         /\ chunkCall.kind = "stub" => chunkCall.err = ""
    /\ lastCall # Nil =>
         /\ lastCall.pre # Nil
         /\ eng # Nil
         /\ frameDurationMs > 0
         /\ chunkCall # Nil
    /\ (lastRecv = "EOF" /\ bd = Nil) =>
         /\ status.code = "OK"
         /\ sent = << >>
         /\ chunkCall = Nil

\* The stub engine was given a chunk and its Results went through the
\* detector before the client closed the stream.
C40_Witness ==
    /\ chunkCall # Nil
    /\ chunkCall.kind = "stub"
    /\ lastCall # Nil
    /\ lastRecv = "EOF"
    /\ status.code = "OK"

\* C33: grpcServer leaves the serving state only after both health statuses
\* were set to NOT_SERVING; Stop is called only after the grace timer fired;
\* and once the real service is installed an interrupt leads to main
\* returning ("adapter stopped"), whether or not the open streams return.
C33_GracefulShutdown ==
    /\ [](shutdown.grpc # "serving" =>
             /\ healthServer[""] = "NOT_SERVING"
             /\ healthServer[serviceName] = "NOT_SERVING")
    /\ [](shutdown.forced => shutdown.timer = "fired")
    /\ [](mainPc = "stopped" => shutdown.grpc = "stopped")
    /\ (shutdown.ctxDone /\ lazyService # Nil) ~> (mainPc = "stopped")

\* The adapter stopped through the forced stop while a delegated stream had
\* not returned.
C33_Witness ==
    /\ mainPc = "stopped"
    /\ shutdown.ctxDone
    /\ shutdown.forced
    /\ OpenStreams # {}

\* C38: whenever the health service reports SERVING for the VAD service the
\* real service is installed; once installed it stays installed, and from
\* then on no invocation is answered Unavailable.
C38_ReadinessOrdering ==
    /\ [](healthServer[serviceName] = "SERVING" => lazyService # Nil)
    /\ [][ lazyService # Nil =>
             /\ lazyService' = lazyService
             /\ \A c \in Clients :
                  streams'[c] = "Unavailable" => streams[c] = "Unavailable" ]_vars

\* A client opened its stream while the health service reported SERVING for
\* the VAD service and was delegated; an earlier one had been turned away.
C38_Witness ==
    /\ healthServer[serviceName] = "SERVING"
    /\ lazyService # Nil
    /\ streams[1] = "Unavailable"
    /\ streams[2] = "delegated"
    /\ shutdown.pc = "waitCtx"
    /\ ~shutdown.ctxDone

\* C35: every Close returns no error; the first Close of a Silero engine
\* destroys its six handles and the stub's destroys nothing; a Close of a
\* closed engine destroys nothing and leaves the engine as the first Close
\* left it.
C35_CloseIdempotent ==
    [][ engCall'.op = "Close" /\ benchLog'.closes = benchLog.closes + 1 =>
          /\ engCall'.err = ""
          /\ eng'.closed
          /\ eng' = [eng EXCEPT !.closed = TRUE]
          /\ eng.closed =>
               /\ eng' = eng
               /\ benchLog'.destroyed = benchLog.destroyed
          /\ ~eng.closed =>
               benchLog'.destroyed =
                   IF eng.kind = "silero" THEN SileroHandles ELSE 0
          /\ UNCHANGED << stateTensor, fed, allResults >>
      ]_vars

\* A Silero engine that processed audio and was closed twice.
C35_Witness ==
    /\ eng.kind = "silero"
    /\ eng.closed
    /\ benchLog.calls >= 1
    /\ benchLog.closes = 2
    /\ benchLog.destroyed = SileroHandles
    /\ engCall.op = "Close"

\* The results NewSileroEngine has returned so far, to any goroutine.
OrtResults ==
    UNION { { ort.results[c][i] : i \in 1..Len(ort.results[c]) } : c \in Callers }

\* C31: the initialisation function runs at most once, however many
\* goroutines construct engines; no NewSileroEngine call gets past
\* ortInitOnce.Do before the function has completed; if it failed every call
\* returns "silero: " wrapping that one error and allocates nothing; if it
\* succeeded no call returns an initialisation error.
C31_OrtInitOnce ==
    /\ ort.attempts <= 1
    /\ ort.done => ort.attempts = 1
    /\ \A c \in Callers : ort.pc[c] = "check" => ort.done
    /\ OrtResults # {} => ort.done
    /\ ort.ortInitErr # << >> =>
         /\ ort.allocs = 0
         /\ \A r \in OrtResults :
              r = [err |-> Wrap("silero", ort.ortInitErr), allocated |-> FALSE]
    /\ (ort.done /\ ort.ortInitErr = << >>) =>
         \A r \in OrtResults : r.allocated /\ r.err \in OrtAllocOutcomes

\* The initialisation failed once; both goroutines called NewSileroEngine
\* twice and got the same error four times.
C31_Witness ==
    /\ ort.attempts = 1
    /\ ort.ortInitErr = << "InitializeEnvironment" >>
    /\ \A c \in Callers : Len(ort.results[c]) >= 2

\* speech_pad_ms occurs in the process configuration.
PadInEnv(env) ==
    \/ env.NUPI_VAD_SPEECH_PAD_MS.kind # "unset"
    \/ env.NUPI_ADAPTER_CONFIG.kind = "object" /\ env.NUPI_ADAPTER_CONFIG.SpeechPadMs # None

\* The environment without speech_pad_ms.
StripPad(env) ==
    [env EXCEPT !.NUPI_VAD_SPEECH_PAD_MS = EnvUnset,
                !.NUPI_ADAPTER_CONFIG = [@ EXCEPT !.SpeechPadMs = None]]

InSeq(x, sq) == \E i \in 1..Len(sq) : sq[i] = x

\* C34: in the process configuration speech_pad_ms changes neither the error
\* nor the configuration Load returns: a load that succeeds carries one
\* warning for the variable NUPI_VAD_SPEECH_PAD_MS and one for the key in
\* NUPI_ADAPTER_CONFIG, exactly when they are present; in a stream's
\* config_json speech_pad_ms ends the stream with InvalidArgument naming it.
C34_SpeechPadHandling ==
    /\ loader.result # Nil =>
         LET r == loader.result
             r0 == Load(StripPad(loader.env))
             raw == loader.env.NUPI_ADAPTER_CONFIG
         IN /\ r.err = r0.err
            /\ r.Config = r0.Config
            /\ r.err = "" =>
                 /\ InSeq(WarnPadEnv, r.Warnings)
                      <=> loader.env.NUPI_VAD_SPEECH_PAD_MS.kind # "unset"
                 /\ InSeq(WarnPadJSON, r.Warnings)
                      <=> (raw.kind = "object" /\ raw.SpeechPadMs # None)
    /\ loader.stream # Nil =>
         LET cj == loader.stream.configJSON IN
         (cj.kind = "object" /\ cj.SpeechPadMs # None) =>
             loader.stream.status = [code |-> "InvalidArgument", msg |-> "speech_pad_ms"]

\* NUPI_VAD_SPEECH_PAD_MS and speech_pad_ms in NUPI_ADAPTER_CONFIG were both
\* set, Load succeeded with the two warnings, and a stream that sent
\* speech_pad_ms was refused.
C34_Witness ==
    /\ loader.result # Nil
    /\ loader.result.err = ""
    /\ loader.env.NUPI_VAD_SPEECH_PAD_MS = EnvNumber(100)
    /\ loader.env.NUPI_ADAPTER_CONFIG = CJObject(None, None, None, Some(100))
    /\ loader.result.Warnings = << WarnPadJSON, WarnPadEnv >>
    /\ loader.stream # Nil
    /\ loader.stream.status = [code |-> "InvalidArgument", msg |-> "speech_pad_ms"]

\* C34 as stated: speech_pad_ms in the process configuration makes loading
\* fail, and in a stream's config_json it ends the stream with
\* InvalidArgument.
C34_Original ==
    /\ (loader.result # Nil /\ PadInEnv(loader.env)) => loader.result.err # ""
    /\ loader.stream # Nil =>
         LET cj == loader.stream.configJSON IN
         (cj.kind = "object" /\ cj.SpeechPadMs # None) =>
             loader.stream.status = [code |-> "InvalidArgument", msg |-> "speech_pad_ms"]

\* C32: a step of one stream leaves s.cfg, the process defaults, as it was;
\* it leaves every other stream as it was, its config, its engine (threshold
\* included) and its events; and it takes the stepping stream where the same
\* event takes a stream that runs alone: an opened stream starts from the
\* process defaults with no engine, and every later step is the step of the
\* solitary DetectSpeech on the stream's own locals, config and engine.
C32_StreamIsolation ==
    [][ LET i == iso'.last.who IN
        /\ iso'.cells[0] = iso.cells[0]
        /\ \A j \in IsoStreams \ {i} : IsoView(iso', j) = IsoView(iso, j)
        /\ IsoView(iso', i) =
             IF iso'.last.kind = "open" THEN NewLocals(iso.cells[0])
             ELSE IsoSolo(IsoView(iso, i), iso'.last)
      ]_vars

\* Both streams run on Silero engines; stream 1 lowered its threshold to 40
\* with a config_json and sent an event, stream 2 kept the default 50 and
\* has audio buffered in its own engine.
C32_Witness ==
    /\ iso.L[1] # Nil /\ iso.L[2] # Nil
    /\ IsoView(iso, 1).engineReady /\ IsoView(iso, 2).engineReady
    /\ IsoView(iso, 1).eng.kind = "silero"
    /\ IsoView(iso, 1).streamCfg.Threshold = 40
    /\ IsoView(iso, 1).eng.threshold = 40
    /\ Len(IsoView(iso, 1).sent) >= 1
    /\ IsoView(iso, 2).streamCfg.Threshold = 50
    /\ IsoView(iso, 2).eng.threshold = 50
    /\ IsoView(iso, 2).eng.pcmBuf > 0
    /\ iso.cells[0].Threshold = 50

====
